---- MODULE Spec2Model ----
(***************************************************************************)
(* Model of the query-compilation engine: the model builder                *)
(* (core/model/builder/mod.rs) and the MongoDB aggregation-pipeline        *)
(* planner (connectors/mongodb/aggregation_builder.rs).                    *)
(*                                                                         *)
(* JSON and BSON values are tagged pairs <<tag, payload>>.  Objects and    *)
(* documents are sequences of <<key, value>> pairs with distinct keys, in  *)
(* iteration order.  An Option is <<>> (None) or <<x>> (Some(x)).  A       *)
(* Result is a record: ok, the value v, and the error type err; a panic    *)
(* is the error type "Panic".                                              *)
(***************************************************************************)
EXTENDS Integers, Sequences, FiniteSets, TLC

VARIABLES
    builder,    \* the ModelBuilder being configured
    calls,      \* number of configuration calls made on the builder
    built,      \* Option of the Result of ModelBuilder::build
    request,    \* the last request handed to build_query_pipeline_from_json
    response    \* Option of the Result it returned

vars == <<builder, calls, built, request, response>>

-----------------------------------------------------------------------------
(* Option and Result *)

None == <<>>
Some(x) == <<x>>
is_some(o) == Len(o) = 1
is_none(o) == Len(o) = 0
unwrap(o) == o[1]

Ok(x) == [ok |-> TRUE, v |-> x, err |-> ""]
Err(e) == [ok |-> FALSE, v |-> <<>>, err |-> e]
Panic == Err("Panic")

(* A `let` binding: the value is computed once and handed on. *)
Let(v, F(_)) == F(v)

(* The `?` operator: an error is returned as it is, else the computation
   goes on with the value. *)
Try(r, F(_)) == IF ~r.ok THEN r ELSE F(r.v)

-----------------------------------------------------------------------------
(* serde_json::Value *)

JNull == <<"null", FALSE>>
JBool(b) == <<"bool", b>>
JInt(n) == <<"int", n>>
(* A JSON integer outside the 32-bit range: high * 2^32 + low, where low is
   the low 32 bits read as an i32.  JInt(n) is the case high = 0. *)
JInt64(high, low) == <<"int", low, high>>
JStr(s) == <<"str", s>>
JArr(a) == <<"arr", a>>
JObj(m) == <<"obj", m>>

is_null(j) == j[1] = "null"
is_boolean(j) == j[1] = "bool"
is_number(j) == j[1] = "int"
is_string(j) == j[1] = "str"
is_array(j) == j[1] = "arr"
is_object(j) == j[1] = "obj"

(* as_i64 of a JSON integer: its high part, and its sign. *)
i64_high(j) == IF Len(j) > 2 THEN j[3] ELSE 0
i64_negative(j) == i64_high(j) < 0 \/ (i64_high(j) = 0 /\ j[2] < 0)

(* Map::get and Document::get: the value under key k, if any. *)
MapGet(m, k) ==
    LET idx == {i \in 1..Len(m) : m[i][1] = k}
    IN  IF idx = {} THEN None ELSE Some(m[CHOOSE i \in idx : TRUE][2])

MapKeys(m) == [i \in 1..Len(m) |-> m[i][1]]

KeySet(m) == {m[i][1] : i \in 1..Len(m)}

(* Map::insert and Document::insert: replace in place, else append. *)
Insert(m, k, v) ==
    IF \E i \in 1..Len(m) : m[i][1] = k
    THEN [i \in 1..Len(m) |-> IF m[i][1] = k THEN <<k, v>> ELSE m[i]]
    ELSE Append(m, <<k, v>>)

-----------------------------------------------------------------------------
(* bson::Bson *)

BI32(n) == <<"i32", n>>
BI64(n) == <<"i64", n>>
BDouble(n) == <<"double", n>>
BString(s) == <<"string", s>>
BBool(b) == <<"boolean", b>>
BArray(a) == <<"array", a>>
BDoc(d) == <<"document", d>>
BRegex(p, o) == <<"regex", <<p, o>>>>

(* A pipeline stage: a document with the single key `name`. *)
Stage(name, body) == <<<<name, body>>>>
StageName(s) == s[1][1]
StageBody(s) == s[1][2]

-----------------------------------------------------------------------------
(* Schema: fields, relations, indexes, and ModelBuilder *)

(* A field as ModelBuilder::build and the planner read it. *)
Field(name, column_name, field_type, primary, index, queryable) ==
    [name |-> name, column_name |-> column_name, field_type |-> field_type,
     primary |-> primary, index |-> index, queryable |-> queryable]

Relation(name, model, fields, references, through) ==
    [name |-> name, model |-> model, fields |-> fields,
     references |-> references, through |-> through]

ModelIndexItem(field_name) == [field_name |-> field_name, sort |-> "Asc"]

ModelIndex(index_type, name, items) ==
    [index_type |-> index_type, name |-> name, items |-> items]

RECURSIVE JoinKeys(_)
JoinKeys(keys) ==
    IF Len(keys) = 0 THEN ""
    ELSE IF Len(keys) = 1 THEN keys[1]
    ELSE keys[1] \o "_" \o JoinKeys(Tail(keys))

IndexItems(keys) == [i \in 1..Len(keys) |-> ModelIndexItem(keys[i])]

IndexKeySet(index) == {index.items[i].field_name : i \in 1..Len(index.items)}

ModelBuilder_new(name) ==
    [name |-> name, table_name |-> "", field_builders |-> <<>>,
     relation_builders |-> <<>>, primary |-> None, indices |-> <<>>]

ModelBuilder_table_name(b, table_name) == [b EXCEPT !.table_name = table_name]

ModelBuilder_field(b, f) ==
    [b EXCEPT !.field_builders = Append(@, f)]

ModelBuilder_relation(b, r) ==
    [b EXCEPT !.relation_builders = Append(@, r)]

ModelBuilder_primary(b, keys) ==
    LET index == ModelIndex("Primary", JoinKeys(keys), IndexItems(keys))
    IN  [b EXCEPT !.indices = Append(@, index), !.primary = Some(index)]

ModelBuilder_primary_settings(b, keys) ==
    [b EXCEPT !.primary = Some(ModelIndex("Primary", "", IndexItems(keys)))]

ModelBuilder_index(b, keys) ==
    [b EXCEPT !.indices =
        Append(@, ModelIndex("Index", JoinKeys(keys), IndexItems(keys)))]

ModelBuilder_unique(b, keys) ==
    [b EXCEPT !.indices =
        Append(@, ModelIndex("Unique", JoinKeys(keys), IndexItems(keys)))]

all_relation_keys(b) ==
    [i \in 1..Len(b.relation_builders) |-> b.relation_builders[i].name]

all_keys(b) ==
    [i \in 1..Len(b.field_builders) |-> b.field_builders[i].name]
        \o all_relation_keys(b)

get_query_keys(b) ==
    SelectSeq(b.field_builders, LAMBDA f : f.queryable)

query_keys_of(b) ==
    LET q == get_query_keys(b)
    IN  [i \in 1..Len(q) |-> q[i].name] \o all_relation_keys(b)

(* One key-set per index of `indices`, whatever its type, then the primary's. *)
get_unique_query_keys(indices, primary) ==
    Append([i \in 1..Len(indices) |-> IndexKeySet(indices[i])],
           IndexKeySet(primary))

(* The loop of build over the fields: a primary field replaces `primary`,
   an indexed field appends to `indices`. *)
RECURSIVE build_fields(_, _, _, _)
build_fields(fields, i, primary, indices) ==
    IF i > Len(fields) THEN [primary |-> primary, indices |-> indices]
    ELSE
        LET field == fields[i]
            one == <<ModelIndexItem(field.name)>>
            primary1 ==
                IF field.primary THEN Some(ModelIndex("Primary", "", one))
                ELSE primary
            indices1 ==
                IF field.index = "Index"
                THEN Append(indices, ModelIndex("Index", field.name, one))
                ELSE IF field.index = "Unique"
                THEN Append(indices, ModelIndex("Unique", field.name, one))
                ELSE indices
        IN  build_fields(fields, i + 1, primary1, indices1)

(* name.to_lowercase().to_plural(), for the model names in use. *)
to_lowercase_plural(name) ==
    CASE name = "User" -> "users"
      [] name = "Post" -> "posts"
      [] name = "Tag" -> "tags"
      [] name = "PostTag" -> "posttags"
      [] name = "UserTag" -> "usertags"
      [] OTHER -> name \o "s"

ModelBuilder_build(b) ==
    Let(build_fields(b.field_builders, 1, b.primary, b.indices), LAMBDA r :
        IF is_none(r.primary) THEN Panic
        ELSE Ok([name |-> b.name,
                 table_name |-> IF b.table_name = ""
                                THEN to_lowercase_plural(b.name)
                                ELSE b.table_name,
                 fields_vec |-> b.field_builders,
                 relations_vec |-> b.relation_builders,
                 primary |-> unwrap(r.primary),
                 indices |-> r.indices,
                 all_keys |-> all_keys(b),
                 query_keys |-> query_keys_of(b),
                 unique_query_keys |->
                     get_unique_query_keys(r.indices, unwrap(r.primary))]))

(* Model::field and Model::relation: lookup in fields_map / relations_map,
   where a later entry of the same name replaced an earlier one. *)
Model_field(model, key) ==
    LET idx == {i \in 1..Len(model.fields_vec) : model.fields_vec[i].name = key}
    IN  IF idx = {} THEN None
        ELSE Some(model.fields_vec[CHOOSE i \in idx : \A j \in idx : j <= i])

Model_relation(model, key) ==
    LET idx == {i \in 1..Len(model.relations_vec) :
                    model.relations_vec[i].name = key}
    IN  IF idx = {} THEN None
        ELSE Some(model.relations_vec[CHOOSE i \in idx : \A j \in idx : j <= i])

SeqContains(s, x) == \E i \in 1..Len(s) : s[i] = x

-----------------------------------------------------------------------------
(* Graph *)

(* Graph::model: the model of that name, or ModelNotFound. *)
Graph_model(graph, name) ==
    IF name \in DOMAIN graph THEN Ok(graph[name]) ELSE Err("ModelNotFound")

-----------------------------------------------------------------------------
(* input_decoder helpers *)

one_length_json_obj(json_value) ==
    IF ~is_object(json_value) THEN Panic
    ELSE IF Len(json_value[2]) # 1 THEN Err("WrongInputUpdator")
    ELSE Ok(json_value[2][1])

(* An object is a list of one; an array is the list of its elements. *)
input_to_vec(json_value) ==
    IF is_object(json_value) THEN Ok(<<json_value>>)
    ELSE IF is_array(json_value) THEN Ok(json_value[2])
    ELSE Err("WrongInputType")

-----------------------------------------------------------------------------
(* parse_bson_where_entry: per-field-type predicates *)

(* The enums of the graph. *)
GraphEnums == [Role |-> <<"ADMIN", "USER">>]

(* Strings NaiveDate::parse_from_str("%Y-%m-%d"), DateTime::parse_from_rfc3339
   and ObjectId::parse_str accept, among the strings in use. *)
DateStrings == {"2020-01-02"}
DateTimeStrings == {"2020-01-02T03:04:05Z", "2020-01-02T05:04:05+02:00"}
ObjectIdStrings == {"507f1f77bcf86cd799439011"}

BObjectId(s) == <<"objectId", s>>
BDateTime(s) == <<"dateTime", s>>

(* The instant of an accepted date or date-time string, in UTC. *)
to_utc(str) ==
    CASE str = "2020-01-02" -> "2020-01-02T00:00:00Z"
      [] str = "2020-01-02T05:04:05+02:00" -> "2020-01-02T03:04:05Z"
      [] OTHER -> str

parse_object_id(value) ==
    IF is_string(value) /\ value[2] \in ObjectIdStrings
    THEN Ok(BObjectId(value[2]))
    ELSE Err("WrongInputType")

(* A JSON number is an integer here: is_i64 or is_u64 holds. *)
parse_f64(value) ==
    IF is_number(value) THEN Ok(BDouble(value[2])) ELSE Err("WrongInputType")

parse_date(value) ==
    IF ~is_string(value) THEN Err("WrongInputType")
    ELSE IF value[2] \in DateStrings THEN Ok(BDateTime(to_utc(value[2])))
    ELSE Err("WrongDateFormat")

parse_datetime(value) ==
    IF ~is_string(value) THEN Err("WrongInputType")
    ELSE IF value[2] \in DateTimeStrings THEN Ok(BDateTime(to_utc(value[2])))
    ELSE Err("WrongDateTimeFormat")

parse_enum(value, enum_name) ==
    IF ~is_string(value) THEN Err("WrongInputType")
    ELSE IF enum_name \notin DOMAIN GraphEnums THEN Panic
    ELSE IF SeqContains(GraphEnums[enum_name], value[2])
    THEN Ok(BString(value[2]))
    ELSE Err("UndefinedEnumValue")

IntTypes == {"I8", "I16", "I32", "I64", "I128", "U8", "U16", "U32", "U64", "U128"}

parse_string(value) ==
    IF is_string(value) THEN Ok(BString(value[2])) ELSE Err("WrongInputType")

parse_bool(value) ==
    IF is_boolean(value) THEN Ok(BBool(value[2])) ELSE Err("WrongInputType")

parse_i64(value) ==
    IF ~is_number(value) THEN Err("WrongInputType")
    ELSE IF i64_high(value) = 0 THEN Ok(BI64(value[2]))
    ELSE Ok(<<"i64", value[2], value[3]>>)

(* The scalar parser each family applies to an operator's operand. *)
parse_scalar(field_type, value) ==
    CASE field_type[1] \in IntTypes -> parse_i64(value)
      [] field_type[1] = "String" -> parse_string(value)
      [] field_type[1] = "Bool" -> parse_bool(value)
      [] field_type[1] = "ObjectId" -> parse_object_id(value)
      [] field_type[1] \in {"F32", "F64"} -> parse_f64(value)
      [] field_type[1] = "Date" -> parse_date(value)
      [] field_type[1] = "DateTime" -> parse_datetime(value)
      [] field_type[1] = "Enum" -> parse_enum(value, field_type[2])

(* The backend key each family emits an operator under; "" when the family
   does not take the operator. *)
where_operator_key(field_type, key) ==
    LET ordered == field_type[1] \in UNION {IntTypes, {"String", "ObjectId", "F32", "F64", "Date", "DateTime"}}
        listed == ordered \/ field_type[1] = "Enum"
    IN  CASE key = "equals" -> "$eq"
          [] key = "not" -> "$ne"
          [] key = "gt" /\ ordered -> "$gt"
          [] key = "gte" /\ ordered -> "$gte"
          [] key = "lt" /\ ordered ->
                IF field_type[1] = "DateTime" THEN "lt" ELSE "$lt"
          [] key = "lte" /\ ordered -> "$lte"
          [] key = "in" /\ listed -> "$in"
          [] key = "notIn" /\ listed -> "$nin"
          [] OTHER -> ""

has_i_mode(map) ==
    LET mode == MapGet(map, "mode")
    IN  is_some(mode) /\ is_string(unwrap(mode))
            /\ unwrap(mode)[2] = "caseInsensitive"

(* regex::escape on the patterns in use: a backslash before each
   metacharacter. *)
regex_escape(str) ==
    CASE str = "a.b" -> "a\\.b"
      [] str = "a*" -> "a\\*"
      [] OTHER -> str

RECURSIVE parse_array(_, _, _, _)
parse_array(field_type, arr, i, acc) ==
    IF i > Len(arr) THEN Ok(BArray(acc))
    ELSE Try(parse_scalar(field_type, arr[i]), LAMBDA r :
            parse_array(field_type, arr, i + 1, Append(acc, r)))

(* The elements of an enum `in` / `notIn` list: each turn of the loop
   parses `value`, the list itself, as the source does. *)
RECURSIVE parse_enum_array(_, _, _, _)
parse_enum_array(value, enum_name, i, acc) ==
    IF i > Len(value[2]) THEN Ok(BArray(acc))
    ELSE Try(parse_enum(value, enum_name), LAMBDA r :
            parse_enum_array(value, enum_name, i + 1, Append(acc, r)))

(* One operator entry of a predicate object: the (key, bson) to insert,
   <<>> for an entry that inserts nothing, or the error. *)
parse_where_operator(field_type, map, key, value) ==
    Let(where_operator_key(field_type, key), LAMBDA bkey :
        IF bkey \in {"$in", "$nin"} THEN
            IF ~is_array(value) THEN Err("WrongInputType")
            ELSE IF field_type[1] = "Enum" THEN
                Try(parse_enum_array(value, field_type[2], 1, <<>>),
                    LAMBDA r : Ok(<<bkey, r>>))
            ELSE Try(parse_array(field_type, value[2], 1, <<>>),
                     LAMBDA r : Ok(<<bkey, r>>))
        ELSE IF bkey # "" THEN
            Try(parse_scalar(field_type, value), LAMBDA r : Ok(<<bkey, r>>))
        ELSE IF field_type[1] = "String"
                /\ key \in {"contains", "startsWith", "endsWith", "matches"} THEN
            Try(parse_string(value), LAMBDA str :
                Ok(<<"$regex",
                     BRegex(CASE key = "contains" -> regex_escape(str[2])
                              [] key = "startsWith" -> "^" \o regex_escape(str[2])
                              [] key = "endsWith" -> regex_escape(str[2]) \o "$"
                              [] key = "matches" -> str[2],
                            IF has_i_mode(map) THEN "i" ELSE "")>>))
        ELSE IF field_type[1] = "String" /\ key = "mode" THEN Ok(<<>>)
        ELSE Err("WrongInputType"))

RECURSIVE parse_where_object(_, _, _, _)
parse_where_object(field_type, map, i, result) ==
    IF i > Len(map) THEN Ok(BDoc(result))
    ELSE Try(parse_where_operator(field_type, map, map[i][1], map[i][2]),
             LAMBDA r :
                IF r = <<>>
                THEN parse_where_object(field_type, map, i + 1, result)
                ELSE parse_where_object(field_type, map, i + 1,
                                        Insert(result, r[1], r[2])))

(* A bare literal of the field's type, else a predicate object. *)
parse_bson_where_entry(field_type, value) ==
    IF field_type[1] \in {"Undefined", "Map", "Object", "Decimal"} THEN Panic
    ELSE IF is_object(value)
    THEN parse_where_object(field_type, value[2], 1, <<>>)
    ELSE parse_scalar(field_type, value)

-----------------------------------------------------------------------------
(* where, orderBy, select *)

RECURSIVE build_where_input(_, _, _)
RECURSIVE build_where_list(_, _, _, _, _)
RECURSIVE build_where_entries(_, _, _, _, _)

(* The $size test a relation predicate inserts; <<>> for an unknown command. *)
relation_size_test(command) ==
    CASE command \in {"none", "isNot"} -> Some(BDoc(<<<<"$size", BI32(0)>>>>))
      [] command \in {"some", "is"} -> Some(BDoc(<<<<"$size", BI32(1)>>>>))
      [] command = "all" -> Some(BDoc(<<<<"$size", BI32(0)>>>>))
      [] OTHER -> None

(* Variant: the API field name is used. *)
where_db_key_field_name(field) == field.name

(* The key a scalar predicate is stored under in the $match document. *)
where_db_key(field) == field.column_name

(* One non-logical entry of `where`: the document after the entry. *)
build_where_entry(model, graph, doc, key, value) ==
    IF ~SeqContains(model.query_keys, key) THEN Err("KeysUnallowed")
    ELSE Let(Model_field(model, key), LAMBDA field :
        IF is_some(field) THEN
            Try(parse_bson_where_entry(unwrap(field).field_type, value),
                LAMBDA bson : Ok(Insert(doc, where_db_key(unwrap(field)), bson)))
        ELSE Let(Model_relation(model, key), LAMBDA relation :
            IF is_none(relation) THEN Panic
            ELSE
                Try(Graph_model(graph, unwrap(relation).model), LAMBDA this_model :
                Try(one_length_json_obj(value), LAMBDA one :
                Try(build_where_input(this_model, graph, Some(one[2])),
                    LAMBDA inner :
                Let(relation_size_test(one[1]), LAMBDA test :
                    IF is_some(test) THEN Ok(Insert(doc, key, unwrap(test)))
                    ELSE Ok(doc)))))))

build_where_list(model, graph, arr, i, vals) ==
    IF i > Len(arr) THEN Ok(vals)
    ELSE Try(build_where_input(model, graph, Some(arr[i])), LAMBDA r :
            build_where_list(model, graph, arr, i + 1, Append(vals, BDoc(r))))

build_where_entries(model, graph, map, i, doc) ==
    IF i > Len(map) THEN Ok(doc)
    ELSE
        LET key == map[i][1]
            value == map[i][2]
        IN  IF key \in {"AND", "OR"} THEN
                IF ~is_array(value) THEN Panic
                ELSE
                    Try(build_where_list(model, graph, value[2], 1, <<>>),
                        LAMBDA vals :
                            build_where_entries(model, graph, map, i + 1,
                                Insert(doc, IF key = "AND" THEN "$and" ELSE "$or",
                                       BArray(vals))))
            ELSE IF key = "NOT" THEN
                Try(build_where_input(model, graph, Some(value)), LAMBDA r :
                    build_where_entries(model, graph, map, i + 1,
                        Insert(doc, "$nor", BArray(<<BDoc(r)>>))))
            ELSE
                Try(build_where_entry(model, graph, doc, key, value), LAMBDA r :
                    build_where_entries(model, graph, map, i + 1, r))

build_where_input(model, graph, where) ==
    IF is_none(where) THEN Ok(<<>>)
    ELSE IF ~is_object(unwrap(where)) THEN Err("InvalidQueryInput")
    ELSE build_where_entries(model, graph, unwrap(where)[2], 1, <<>>)

(* The $sort value of one orderBy direction. *)
sort_direction(str_val, reverse) ==
    IF str_val = "asc" THEN (IF reverse THEN -1 ELSE 1)
    ELSE (IF reverse THEN 1 ELSE -1)

(* The key an orderBy entry is stored under in the $sort document. *)
order_by_db_key(model, key) == key

RECURSIVE build_order_by_entries(_, _, _, _, _)
build_order_by_entries(model, order_by, i, reverse, retval) ==
    IF i > Len(order_by) THEN Ok(retval)
    ELSE
        Try(one_length_json_obj(order_by[i]), LAMBDA one :
            LET key == one[1]
                value == one[2]
            IN  IF ~is_string(value) THEN Err("InvalidQueryInput")
                ELSE IF value[2] \in {"asc", "desc"}
                THEN build_order_by_entries(model, order_by, i + 1, reverse,
                        Insert(retval, order_by_db_key(model, key),
                               BI32(sort_direction(value[2], reverse))))
                ELSE build_order_by_entries(model, order_by, i + 1, reverse,
                                            retval))

build_order_by_input(model, order_by, reverse) ==
    IF is_none(order_by) THEN Ok(<<>>)
    ELSE IF ~is_object(unwrap(order_by)) /\ ~is_array(unwrap(order_by))
    THEN Err("InvalidQueryInput")
    ELSE Try(input_to_vec(unwrap(order_by)), LAMBDA vec :
            build_order_by_entries(model, vec, 1, reverse, <<>>))

(* The true_list and false_list of build_select_input; a non-boolean value
   panics. *)
RECURSIVE select_lists(_, _, _, _)
select_lists(map, i, true_list, false_list) ==
    IF i > Len(map) THEN Ok(<<true_list, false_list>>)
    ELSE IF ~is_boolean(map[i][2]) THEN Panic
    ELSE IF map[i][2][2]
    THEN select_lists(map, i + 1, Append(true_list, map[i][1]), false_list)
    ELSE select_lists(map, i + 1, true_list, Append(false_list, map[i][1]))

primary_names(model) ==
    [i \in 1..Len(model.primary.items) |-> model.primary.items[i].field_name]

(* Variant: the primary key is projected only when the lists keep it. *)
select_keeps_without_primary(model, true_list, false_list, k) ==
    IF Len(false_list) # 0 THEN ~SeqContains(false_list, k)
    ELSE SeqContains(true_list, k)

(* Variant: a mixed select is read as a whitelist. *)
select_keeps_whitelist_first(model, true_list, false_list, k) ==
    IF SeqContains(primary_names(model), k) THEN TRUE
    ELSE IF Len(true_list) # 0 THEN SeqContains(true_list, k)
    ELSE ~SeqContains(false_list, k)

(* Whether key k is projected, in the blacklist branch (false_list not
   empty) and in the whitelist branch. *)
select_keeps(model, true_list, false_list, k) ==
    IF SeqContains(primary_names(model), k) THEN TRUE
    ELSE IF Len(false_list) # 0 THEN ~SeqContains(false_list, k)
    ELSE SeqContains(true_list, k)

RECURSIVE select_project(_, _, _, _, _)
select_project(model, true_list, false_list, i, result) ==
    IF i > Len(model.all_keys) THEN result
    ELSE
        Let(Model_field(model, model.all_keys[i]), LAMBDA field :
            IF is_some(field)
               /\ select_keeps(model, true_list, false_list, model.all_keys[i])
            THEN select_project(model, true_list, false_list, i + 1,
                    Insert(result, unwrap(field).column_name, BI32(1)))
            ELSE select_project(model, true_list, false_list, i + 1, result))

(* Result of an Option: None when the select is empty. *)
build_select_input(model, select) ==
    IF ~is_object(select) THEN Panic
    ELSE
        Try(select_lists(select[2], 1, <<>>, <<>>), LAMBDA lists :
            IF Len(lists[1]) = 0 /\ Len(lists[2]) = 0 THEN Ok(None)
            ELSE Ok(Some(select_project(model, lists[1], lists[2], 1, <<>>))))

-----------------------------------------------------------------------------
(* Pipelines as sequences of stages *)

(* Position of the first stage named `name`, 0 when there is none. *)
FindStage(pipeline, name) ==
    IF \E i \in 1..Len(pipeline) : StageName(pipeline[i]) = name
    THEN CHOOSE i \in 1..Len(pipeline) :
            /\ StageName(pipeline[i]) = name
            /\ \A j \in 1..(i - 1) : StageName(pipeline[j]) # name
    ELSE 0

RemoveAt(seq, i) ==
    [j \in 1..(Len(seq) - 1) |-> IF j < i THEN seq[j] ELSE seq[j + 1]]

ReplaceAt(seq, i, x) == [seq EXCEPT ![i] = x]

RemoveStage(pipeline, name) ==
    Let(FindStage(pipeline, name), LAMBDA index :
        IF index = 0 THEN pipeline ELSE RemoveAt(pipeline, index))

(* Variant: the sign is read from the low 32 bits of take. *)
has_negative_take_low_word(json_value) ==
    /\ is_object(json_value)
    /\ is_some(MapGet(json_value[2], "take"))
    /\ is_number(unwrap(MapGet(json_value[2], "take")))
    /\ unwrap(MapGet(json_value[2], "take"))[2] < 0

has_negative_take(json_value) ==
    /\ is_object(json_value)
    /\ is_some(MapGet(json_value[2], "take"))
    /\ is_number(unwrap(MapGet(json_value[2], "take")))
    /\ i64_negative(unwrap(MapGet(json_value[2], "take")))

reverse_array_stage(relation_name) ==
    Stage("$set", BDoc(<<<<relation_name,
        BDoc(<<<<"$reverseArray", BString("$" \o relation_name)>>>>)>>>>))

eq_expr(left, right) ==
    BDoc(<<<<"$eq", BArray(<<BString(left), BString(right)>>)>>>>)

-----------------------------------------------------------------------------
(* Relation lookups *)

RECURSIVE build_lookup_inputs(_, _, _, _, _)
RECURSIVE build_lookup_entries(_, _, _, _, _, _, _)
RECURSIVE build_query_pipeline_from_json(_, _, _, _, _)

(* let and $eq values of a direct relation, one per (fields[i], references[i]). *)
RECURSIVE direct_keys(_, _, _, _, _, _)
direct_keys(model, relation_model, relation, i, let_value, eq_values) ==
    IF i > Len(relation.fields) THEN Ok(<<let_value, eq_values>>)
    ELSE IF is_none(Model_field(model, relation.fields[i])) THEN Panic
    ELSE IF i > Len(relation.references) THEN Panic
    ELSE IF is_none(Model_field(relation_model, relation.references[i]))
    THEN Panic
    ELSE
        direct_keys(model, relation_model, relation, i + 1,
            Insert(let_value, relation.references[i],
                BString("$" \o
                    unwrap(Model_field(model, relation.fields[i])).column_name)),
            Append(eq_values,
                eq_expr("$" \o unwrap(Model_field(relation_model,
                                    relation.references[i])).column_name,
                        "$$" \o relation.references[i])))

(* The key equalities appended to $expr.$and of a $match document. *)
merge_expr_and(doc, eq_values) ==
    Let(IF is_none(MapGet(doc, "$expr"))
        THEN Insert(doc, "$expr", BDoc(<<>>)) ELSE doc, LAMBDA d1 :
    Let(unwrap(MapGet(d1, "$expr"))[2], LAMBDA expr :
    Let(IF is_none(MapGet(expr, "$and"))
        THEN Insert(expr, "$and", BArray(<<>>)) ELSE expr, LAMBDA e1 :
    Let(unwrap(MapGet(e1, "$and"))[2], LAMBDA conj :
        Insert(d1, "$expr",
               BDoc(Insert(e1, "$and", BArray(conj \o eq_values))))))))

(* Variant: the key equalities always go into a new first $match. *)
direct_inner_pipeline_prepending(inner_pipeline, eq_values) ==
    <<Stage("$match", BDoc(merge_expr_and(<<>>, eq_values)))>> \o inner_pipeline

(* The inner pipeline of a direct lookup: the equalities merged into the
   nested $match in place, or a new $match put first. *)
direct_inner_pipeline(inner_pipeline, eq_values) ==
    Let(FindStage(inner_pipeline, "$match"), LAMBDA index :
        IF index # 0
        THEN ReplaceAt(inner_pipeline, index,
                Stage("$match",
                      BDoc(merge_expr_and(StageBody(inner_pipeline[index])[2],
                                          eq_values))))
        ELSE <<Stage("$match", BDoc(merge_expr_and(<<>>, eq_values)))>>
             \o inner_pipeline)

lookup_stage(from, as, let_value, pipeline) ==
    Stage("$lookup", BDoc(<<<<"from", BString(from)>>, <<"as", BString(as)>>,
                            <<"let", BDoc(let_value)>>,
                            <<"pipeline", BArray(pipeline)>>>>))

build_direct_lookup(model, graph, type, mutation_mode, relation, key, value) ==
    Try(Graph_model(graph, relation.model), LAMBDA relation_model :
    Try(direct_keys(model, relation_model, relation, 1, <<>>, <<>>),
        LAMBDA keys :
    Try(IF is_object(value)
        THEN build_query_pipeline_from_json(relation_model, graph, type,
                                            mutation_mode, value)
        ELSE Ok(<<>>), LAMBDA inner :
        Ok(<<lookup_stage(relation_model.table_name, key, keys[1],
                          direct_inner_pipeline(inner, keys[2]))>>
           \o (IF has_negative_take(value)
               THEN <<reverse_array_stage(relation.name)>> ELSE <<>>)))))

(* let and $eq values of the join-table side of a through relation. *)
RECURSIVE outer_keys(_, _, _, _, _)
outer_keys(model, local_relation, i, let_value, eq_values) ==
    IF i > Len(local_relation.fields) THEN Ok(<<let_value, eq_values>>)
    ELSE IF i > Len(local_relation.references) THEN Panic
    ELSE IF is_none(Model_field(model, local_relation.references[i])) THEN Panic
    ELSE
        outer_keys(model, local_relation, i + 1,
            Insert(let_value, local_relation.fields[i],
                BString("$" \o unwrap(Model_field(model,
                            local_relation.references[i])).column_name)),
            Append(eq_values, eq_expr("$" \o local_relation.fields[i],
                                      "$$" \o local_relation.fields[i])))

(* let and $eq values of the foreign side of a through relation. *)
RECURSIVE inner_keys(_, _, _, _, _)
inner_keys(foreign_model, foreign_relation, i, let_value, eq_values) ==
    IF i > Len(foreign_relation.fields) THEN Ok(<<let_value, eq_values>>)
    ELSE IF i > Len(foreign_relation.references) THEN Panic
    ELSE IF is_none(Model_field(foreign_model, foreign_relation.references[i]))
    THEN Panic
    ELSE
        inner_keys(foreign_model, foreign_relation, i + 1,
            Insert(let_value, foreign_relation.fields[i],
                   BString("$" \o foreign_relation.fields[i])),
            Append(eq_values,
                eq_expr("$" \o unwrap(Model_field(foreign_model,
                            foreign_relation.references[i])).column_name,
                        "$$" \o foreign_relation.fields[i])))

RECURSIVE insert_all(_, _, _)
insert_all(doc, entries, i) ==
    IF i > Len(entries) THEN doc
    ELSE insert_all(Insert(doc, entries[i][1], entries[i][2]), entries, i + 1)

(* Variant: the nested $sort, $skip and $limit stay in the innermost
   pipeline. *)
through_inner_pipeline_keeping(original, inner_eq_values) ==
    Let(FindStage(original, "$match"), LAMBDA index :
    Let(<<<<"$expr", BDoc(<<<<"$and", BArray(inner_eq_values)>>>>)>>>>,
        LAMBDA base :
        IF index # 0
        THEN ReplaceAt(original, index,
                Stage("$match",
                      BDoc(insert_all(base, StageBody(original[index])[2], 1))))
        ELSE <<Stage("$match", BDoc(base))>> \o original))

(* Variant: the nested $match is replaced by the key equalities alone. *)
through_inner_pipeline_overwriting(original, inner_eq_values) ==
    Let(FindStage(original, "$match"), LAMBDA index :
    Let(<<<<"$expr", BDoc(<<<<"$and", BArray(inner_eq_values)>>>>)>>>>,
        LAMBDA base :
    Let(IF index # 0
        THEN ReplaceAt(original, index, Stage("$match", BDoc(base)))
        ELSE <<Stage("$match", BDoc(base))>> \o original, LAMBDA with_match :
        RemoveStage(RemoveStage(RemoveStage(with_match, "$sort"), "$skip"),
                    "$limit"))))

(* The innermost pipeline of a through lookup: the nested $match merged
   with the join-side equalities; the first $sort, $skip, $limit removed. *)
through_inner_pipeline(original, inner_eq_values) ==
    Let(FindStage(original, "$match"), LAMBDA index :
    Let(<<<<"$expr", BDoc(<<<<"$and", BArray(inner_eq_values)>>>>)>>>>,
        LAMBDA base :
    Let(IF index # 0
        THEN ReplaceAt(original, index,
                Stage("$match",
                      BDoc(insert_all(base, StageBody(original[index])[2], 1))))
        ELSE <<Stage("$match", BDoc(base))>> \o original, LAMBDA with_match :
        RemoveStage(RemoveStage(RemoveStage(with_match, "$sort"), "$skip"),
                    "$limit"))))

(* The first $sort, $skip and $limit of the nested pipeline, in that order. *)
pulled_up_stages(original) ==
    Let(FindStage(original, "$sort"), LAMBDA sort :
    Let(FindStage(original, "$skip"), LAMBDA skip :
    Let(FindStage(original, "$limit"), LAMBDA limit :
        (IF sort # 0 THEN <<original[sort]>> ELSE <<>>)
        \o (IF skip # 0 THEN <<original[skip]>> ELSE <<>>)
        \o (IF limit # 0 THEN <<original[limit]>> ELSE <<>>))))

through_outer_pipeline(foreign_table, relation_name, outer_eq, inner_let, inner_pipeline, pulled) ==
    << Stage("$match", BDoc(<<<<"$expr", BDoc(<<<<"$and", BArray(outer_eq)>>>>)>>>>)),
       lookup_stage(foreign_table, relation_name, inner_let, inner_pipeline),
       Stage("$unwind", BDoc(<<<<"path", BString("$" \o relation_name)>>>>)),
       Stage("$replaceRoot",
             BDoc(<<<<"newRoot", BString("$" \o relation_name)>>>>)) >>
    \o pulled

build_through_lookup(model, graph, relation, value) ==
    Try(Graph_model(graph, unwrap(relation.through)), LAMBDA join_model :
    IF Len(relation.fields) = 0 \/ Len(relation.references) = 0 THEN Panic
    ELSE
    Let(Model_relation(join_model, relation.fields[1]), LAMBDA local :
    Let(Model_relation(join_model, relation.references[1]), LAMBDA foreign :
    IF is_none(local) \/ is_none(foreign) THEN Panic
    ELSE
    Try(Graph_model(graph, unwrap(foreign).model), LAMBDA foreign_model :
    Try(outer_keys(model, unwrap(local), 1, <<>>, <<>>), LAMBDA outer :
    Try(inner_keys(foreign_model, unwrap(foreign), 1, <<>>, <<>>), LAMBDA inner :
    Try(IF is_object(value)
        THEN build_query_pipeline_from_json(foreign_model, graph, "Many", FALSE,
                                            value)
        ELSE Ok(<<>>), LAMBDA original :
        Ok(<<lookup_stage(join_model.table_name, relation.name, outer[1],
                through_outer_pipeline(foreign_model.table_name, relation.name,
                    outer[2], inner[1],
                    through_inner_pipeline(original, inner[2]),
                    pulled_up_stages(original)))>>
           \o (IF has_negative_take(value)
               THEN <<reverse_array_stage(relation.name)>> ELSE <<>>)))))))))

(* Whether an include value yields a lookup. *)
include_value_accepted(value) == is_boolean(value) \/ is_object(value)

build_lookup_entries(model, graph, type, mutation_mode, map, i, retval) ==
    IF i > Len(map) THEN Ok(retval)
    ELSE
        Let(Model_relation(model, map[i][1]), LAMBDA relation :
        IF is_none(relation) THEN Err("InvalidQueryInput")
        ELSE
        Try(Graph_model(graph, unwrap(relation).model), LAMBDA relation_model :
        IF ~include_value_accepted(map[i][2]) THEN Err("InvalidQueryInput")
        ELSE
        Try(IF is_none(unwrap(relation).through)
            THEN build_direct_lookup(model, graph, type, mutation_mode,
                                     unwrap(relation), map[i][1], map[i][2])
            ELSE build_through_lookup(model, graph, unwrap(relation), map[i][2]),
            LAMBDA r :
                build_lookup_entries(model, graph, type, mutation_mode, map,
                                     i + 1, retval \o r))))

build_lookup_inputs(model, graph, type, mutation_mode, include) ==
    IF ~is_object(include) THEN Err("InvalidQueryInput")
    ELSE build_lookup_entries(model, graph, type, mutation_mode, include[2], 1,
                              <<>>)

-----------------------------------------------------------------------------
(* The planner *)

(* Variant: `all` is looked up with the inner where as given. *)
prediction_include_value_unnegated(command, r_where) ==
    IF command \in {"some", "is", "none", "isNot", "all"}
    THEN Some(JObj(<<<<"where", r_where>>, <<"take", JInt(1)>>>>))
    ELSE None

(* The include input of the prediction lookups: one entry per relation key
   of `where` with a known command. *)
prediction_include_value(command, r_where) ==
    CASE command \in {"some", "is"} ->
            Some(JObj(<<<<"where", r_where>>, <<"take", JInt(1)>>>>))
      [] command \in {"none", "isNot"} ->
            Some(JObj(<<<<"where", r_where>>, <<"take", JInt(1)>>>>))
      [] command = "all" ->
            Some(JObj(<<<<"where", JObj(<<<<"NOT", r_where>>>>)>>,
                        <<"take", JInt(1)>>>>))
      [] OTHER -> None

RECURSIVE prediction_include_input(_, _, _, _)
prediction_include_input(model, map, i, include_input) ==
    IF i > Len(map) THEN Ok(include_input)
    ELSE IF is_none(Model_relation(model, map[i][1]))
    THEN prediction_include_input(model, map, i + 1, include_input)
    ELSE
        Try(one_length_json_obj(map[i][2]), LAMBDA one :
        Let(prediction_include_value(one[1], one[2]), LAMBDA entry :
            prediction_include_input(model, map, i + 1,
                IF is_some(entry)
                THEN Insert(include_input, map[i][1], unwrap(entry))
                ELSE include_input)))

build_match_prediction_lookup(model, graph, where) ==
    IF is_none(where) THEN Ok(<<>>)
    ELSE IF ~is_object(unwrap(where)) THEN Err("InvalidQueryInput")
    ELSE
        Try(prediction_include_input(model, unwrap(where)[2], 1, <<>>),
            LAMBDA include_input :
                IF Len(include_input) # 0
                THEN build_lookup_inputs(model, graph, "Many", FALSE,
                                         JObj(include_input))
                ELSE Ok(<<>>))

build_unsets_for_match_lookup(model, where) ==
    IF is_none(where) THEN Ok(<<>>)
    ELSE IF ~is_object(unwrap(where)) THEN Err("InvalidQueryInput")
    ELSE
        Let(SelectSeq(unwrap(where)[2],
                      LAMBDA e : is_some(Model_relation(model, e[1]))),
            LAMBDA rels :
                Ok([i \in 1..Len(rels) |-> Stage("$unset", BString(rels[i][1]))]))

(* Whether some single-item Unique or Primary index is on cursor_key. *)
cursor_key_valid(model, cursor_key) ==
    \E i \in 1..Len(model.indices) :
        /\ Len(model.indices[i].items) = 1
        /\ model.indices[i].index_type \in {"Unique", "Primary"}
        /\ model.indices[i].items[1].field_name = cursor_key

(* Variant: the sign of take is not consulted. *)
cursor_where_key_ignoring_take(order_by_str, take) ==
    IF order_by_str = "asc" THEN "gte" ELSE "lte"

(* The where operator of the cursor predicate. *)
cursor_where_key(order_by_str, take) ==
    Let(order_by_str = "asc", LAMBDA order_asc :
        IF (IF is_some(take) /\ unwrap(take) < 0 THEN ~order_asc ELSE order_asc)
        THEN "gte" ELSE "lte")

(* Validation of the cursor against orderBy: the error, or Ok. The flag
   computed from the indexes is not consulted. *)
cursor_validation(model, order_by, cursor) ==
    IF ~is_object(cursor) THEN Err("InvalidQueryInput")
    ELSE IF is_none(order_by) THEN Err("InvalidQueryInput")
    ELSE IF ~is_object(unwrap(order_by)) THEN Err("InvalidQueryInput")
    ELSE IF Len(unwrap(order_by)[2]) # 1 THEN Err("InvalidQueryInput")
    ELSE IF Len(cursor[2]) # 1 THEN Err("InvalidQueryInput")
    ELSE IF unwrap(order_by)[2][1][1] # cursor[2][1][1]
    THEN Err("InvalidQueryInput")
    ELSE IF ~is_string(unwrap(order_by)[2][1][2]) THEN Err("InvalidQueryInput")
    ELSE IF unwrap(order_by)[2][1][2][2] \notin {"asc", "desc"}
    THEN Err("InvalidQueryInput")
    ELSE Ok(cursor_key_valid(model, cursor[2][1][1]))

(* Result of an Option: the compiled cursor predicate. *)
cursor_additional_where(model, graph, order_by, cursor, take) ==
    IF is_none(cursor) THEN Ok(None)
    ELSE
        Try(cursor_validation(model, order_by, unwrap(cursor)), LAMBDA valid :
        Try(build_where_input(model, graph,
                Some(JObj(<<<<unwrap(cursor)[2][1][1],
                    JObj(<<<<cursor_where_key(unwrap(order_by)[2][1][2][2], take),
                             unwrap(cursor)[2][1][2]>>>>)>>>>))),
            LAMBDA r : Ok(Some(r))))

(* The $match stage, if any, of the compiled where and cursor predicate. *)
match_stages(match, cursor_where) ==
    IF Len(match) # 0 THEN
        IF is_some(cursor_where)
        THEN <<Stage("$match", BDoc(<<<<"$and",
                    BArray(<<BDoc(match), BDoc(unwrap(cursor_where))>>)>>>>))>>
        ELSE <<Stage("$match", BDoc(match))>>
    ELSE IF is_some(cursor_where)
    THEN <<Stage("$match", BDoc(unwrap(cursor_where)))>>
    ELSE <<>>

(* The reverse flag handed to build_order_by_input. *)
sort_reverse(take) == is_some(take) /\ unwrap(take) < 0

(* Variant: skip and take add their stages after those of the page. *)
pagination_stages_cumulative(take, skip, page_size, page_number) ==
    (IF is_some(page_size) /\ is_some(page_number)
     THEN << Stage("$skip",
                BI64((unwrap(page_number) - 1) * unwrap(page_size))),
             Stage("$limit", BI64(unwrap(page_size))) >>
     ELSE <<>>)
    \o (IF is_some(skip) THEN <<Stage("$skip", BI64(unwrap(skip)))>> ELSE <<>>)
    \o (IF is_some(take)
        THEN <<Stage("$limit",
                 BI64(IF unwrap(take) < 0 THEN 0 - unwrap(take)
                      ELSE unwrap(take)))>>
        ELSE <<>>)

(* $skip and $limit. *)
pagination_stages(take, skip, page_size, page_number) ==
    IF is_some(page_size) /\ is_some(page_number)
    THEN << Stage("$skip",
                BI64((unwrap(page_number) - 1) * unwrap(page_size))),
            Stage("$limit", BI64(unwrap(page_size))) >>
    ELSE (IF is_some(skip) THEN <<Stage("$skip", BI64(unwrap(skip)))>> ELSE <<>>)
         \o (IF is_some(take)
             THEN <<Stage("$limit",
                      BI64(IF unwrap(take) < 0 THEN 0 - unwrap(take)
                           ELSE unwrap(take)))>>
             ELSE <<>>)

project_stages(model, select) ==
    IF is_none(select) THEN Ok(<<>>)
    ELSE
        Try(build_select_input(model, unwrap(select)), LAMBDA select_input :
            IF is_some(select_input)
            THEN Ok(<<Stage("$project", BDoc(unwrap(select_input)))>>)
            ELSE Ok(<<>>))

include_stages(model, graph, mutation_mode, include) ==
    IF is_none(include) THEN Ok(<<>>)
    ELSE build_lookup_inputs(model, graph, "Many", mutation_mode,
                             unwrap(include))

(* Variant: the projection is pushed after the include lookups. *)
assemble_pipeline_project_last(lookups, match, unsets, sort, pagination, project, includes) ==
    lookups \o match \o unsets \o sort \o pagination \o includes \o project

(* The order in which the stage groups are laid out. *)
assemble_pipeline(lookups, match, unsets, sort, pagination, project, includes) ==
    lookups \o match \o unsets \o sort \o pagination \o project \o includes

build_query_pipeline(model, graph, mutation_mode, where, order_by, cursor, take, skip, page_size, page_number, include, select) ==
    Try(cursor_additional_where(model, graph, order_by, cursor, take),
        LAMBDA cursor_where :
    Try(build_match_prediction_lookup(model, graph, where),
        LAMBDA lookups_for_matching :
    Try(build_where_input(model, graph, where), LAMBDA match :
    Try(build_unsets_for_match_lookup(model, where), LAMBDA unsets :
    Try(build_order_by_input(model, order_by, sort_reverse(take)), LAMBDA sort :
    Try(project_stages(model, select), LAMBDA project :
    Try(include_stages(model, graph, mutation_mode, include), LAMBDA includes :
        Ok(assemble_pipeline(
            lookups_for_matching,
            match_stages(match, cursor_where),
            unsets,
            IF Len(sort) # 0 THEN <<Stage("$sort", BDoc(sort))>> ELSE <<>>,
            pagination_stages(take, skip, page_size, page_number),
            project,
            includes)))))))))

(* unwrap_i32 of an optional JSON value: a non-integer panics; `as i32`
   keeps the low 32 bits of the integer. *)
unwrap_i32(value) ==
    IF is_none(value) THEN Ok(None)
    ELSE IF ~is_number(unwrap(value)) THEN Panic
    ELSE Ok(Some(unwrap(value)[2]))

(* Variant: a where that covers a unique key-set is accepted. *)
validate_where_unique_covering(model, where) ==
    IF is_none(where) THEN Err("InvalidQueryInput")
    ELSE IF ~is_object(unwrap(where)) THEN Err("WrongJsonFormat")
    ELSE IF ~\E i \in 1..Len(model.unique_query_keys) :
                model.unique_query_keys[i] \subseteq KeySet(unwrap(where)[2])
    THEN Err("FieldIsNotUnique")
    ELSE Ok(TRUE)

validate_where_unique(model, where) ==
    IF is_none(where) THEN Err("InvalidQueryInput")
    ELSE IF ~is_object(unwrap(where)) THEN Err("WrongJsonFormat")
    ELSE IF ~SeqContains(model.unique_query_keys, KeySet(unwrap(where)[2]))
    THEN Err("FieldIsNotUnique")
    ELSE Ok(TRUE)

(* Variant: select is compiled in mutation mode too. *)
build_query_pipeline_from_json_selecting(model, graph, type, mutation_mode, json_value) ==
    IF ~is_object(json_value) THEN Err("InvalidQueryInput")
    ELSE
    Let(json_value[2], LAMBDA map :
    Try(IF type = "Unique" THEN validate_where_unique(model, MapGet(map, "where"))
        ELSE Ok(TRUE), LAMBDA unique :
    Try(unwrap_i32(MapGet(map, "take")), LAMBDA take :
    Try(unwrap_i32(MapGet(map, "skip")), LAMBDA skip :
    Try(unwrap_i32(MapGet(map, "pageNumber")), LAMBDA page_number :
    Try(unwrap_i32(MapGet(map, "pageSize")), LAMBDA page_size :
        build_query_pipeline(model, graph, mutation_mode, MapGet(map, "where"),
            MapGet(map, "orderBy"), MapGet(map, "cursor"), take, skip,
            page_size, page_number,
            IF ~mutation_mode THEN MapGet(map, "include") ELSE None,
            MapGet(map, "select"))))))))

build_query_pipeline_from_json(model, graph, type, mutation_mode, json_value) ==
    IF ~is_object(json_value) THEN Err("InvalidQueryInput")
    ELSE
    Let(json_value[2], LAMBDA map :
    Try(IF type = "Unique" THEN validate_where_unique(model, MapGet(map, "where"))
        ELSE Ok(TRUE), LAMBDA unique :
    Try(unwrap_i32(MapGet(map, "take")), LAMBDA take :
    Try(unwrap_i32(MapGet(map, "skip")), LAMBDA skip :
    Try(unwrap_i32(MapGet(map, "pageNumber")), LAMBDA page_number :
    Try(unwrap_i32(MapGet(map, "pageSize")), LAMBDA page_size :
        build_query_pipeline(model, graph, mutation_mode, MapGet(map, "where"),
            MapGet(map, "orderBy"), MapGet(map, "cursor"), take, skip,
            page_size, page_number,
            IF ~mutation_mode THEN MapGet(map, "include") ELSE None,
            IF ~mutation_mode THEN MapGet(map, "select") ELSE None)))))))

-----------------------------------------------------------------------------
(* The schema the planner is exercised on *)

UserBuilder ==
    ModelBuilder_relation(
    ModelBuilder_relation(
    ModelBuilder_field(
    ModelBuilder_field(
    ModelBuilder_field(
    ModelBuilder_field(
    ModelBuilder_field(ModelBuilder_new("User"),
        Field("id", "_id", <<"I32">>, TRUE, "NoIndex", TRUE)),
        Field("name", "user_name", <<"String">>, FALSE, "NoIndex", TRUE)),
        Field("age", "age", <<"U32">>, FALSE, "Index", TRUE)),
        Field("email", "email", <<"String">>, FALSE, "Unique", TRUE)),
        Field("secret", "secret", <<"String">>, FALSE, "NoIndex", FALSE)),
        Relation("posts", "Post", <<"id">>, <<"authorId">>, None)),
        Relation("tags", "Tag", <<"user">>, <<"tag">>, Some("UserTag")))

PostBuilder ==
    ModelBuilder_relation(
    ModelBuilder_field(
    ModelBuilder_field(
    ModelBuilder_field(
    ModelBuilder_field(ModelBuilder_new("Post"),
        Field("id", "_id", <<"I32">>, TRUE, "NoIndex", TRUE)),
        Field("title", "title", <<"String">>, FALSE, "NoIndex", TRUE)),
        Field("published", "published", <<"Bool">>, FALSE, "NoIndex", TRUE)),
        Field("authorId", "author_id", <<"I32">>, FALSE, "NoIndex", TRUE)),
        Relation("author", "User", <<"authorId">>, <<"id">>, None))

TagBuilder ==
    ModelBuilder_field(
    ModelBuilder_field(ModelBuilder_new("Tag"),
        Field("id", "_id", <<"I32">>, TRUE, "NoIndex", TRUE)),
        Field("label", "tag_label", <<"String">>, FALSE, "NoIndex", TRUE))

(* The join table of User.tags: one relation to each side. *)
UserTagBuilder ==
    ModelBuilder_relation(
    ModelBuilder_relation(
    ModelBuilder_field(
    ModelBuilder_field(
    ModelBuilder_primary(ModelBuilder_new("UserTag"), <<"userId", "tagId">>),
        Field("userId", "user_id", <<"I32">>, FALSE, "NoIndex", TRUE)),
        Field("tagId", "tag_id", <<"I32">>, FALSE, "NoIndex", TRUE)),
        Relation("user", "User", <<"userId">>, <<"id">>, None)),
        Relation("tag", "Tag", <<"tagId">>, <<"id">>, None))

(* The graph around a built User model. *)
GraphOf(user) ==
    [User |-> user, Post |-> ModelBuilder_build(PostBuilder).v,
     Tag |-> ModelBuilder_build(TagBuilder).v,
     UserTag |-> ModelBuilder_build(UserTagBuilder).v]

-----------------------------------------------------------------------------
(* Bounds and request inputs *)

MaxTake == 2
MaxSkip == 1
MaxCalls == 3

J1(k, v) == JObj(<<<<k, v>>>>)
J2(k1, v1, k2, v2) == JObj(<<<<k1, v1>>, <<k2, v2>>>>)

WhereInputs ==
    { J1("age", J1("gte", JInt(18))),
      J1("name", JStr("an")),
      J1("id", JInt(1)),
      J1("email", JStr("a")),
      J2("id", JInt(1), "age", JInt(3)),
      J1("secret", JStr("x")),
      J1("AND", JArr(<<J1("name", J1("contains", JStr("an"))),
                       J1("age", JInt(3))>>)),
      J1("OR", JArr(<<>>)),
      J1("NOT", J1("name", JStr("an"))),
      J1("posts", J1("some", J1("published", JBool(TRUE)))),
      J2("name", J1("startsWith", JStr("a.b")),
         "posts", J1("none", J1("authorId", JInt(1)))),
      J1("age", JStr("old")),
      JStr("all"),
      J1("nope", JInt(1)),
      J1("AND", JArr(<<J1("secret", JStr("x"))>>)),
      J1("AND", JArr(<<>>)),
      J1("posts", J1("is", J1("published", JBool(TRUE)))),
      J1("posts", J1("isNot", J1("published", JBool(TRUE)))),
      J1("posts", J1("all", J1("published", JBool(TRUE)))),
      J1("posts", J1("every", J1("published", JBool(TRUE)))),
      J1("AND", JArr(<<J1("posts", J1("some", J1("published", JBool(TRUE))))>>)),
      J1("NOT", J1("posts", J1("none", J1("authorId", JInt(1))))) }

OrderByInputs ==
    { J1("id", JStr("asc")), J1("id", JStr("desc")),
      J1("name", JStr("asc")), J1("age", JStr("desc")),
      JArr(<<J1("name", JStr("desc")), J1("id", JStr("asc"))>>),
      J1("id", JStr("up")),
      J2("id", JStr("asc"), "age", JStr("asc")),
      J1("secret", JStr("asc")),
      J1("nope", JStr("desc")),
      J1("id", JInt(1)),
      JArr(<<J1("name", JStr("ascending")), J1("id", JStr("asc"))>>),
      JArr(<<J2("id", JStr("asc"), "age", JStr("asc"))>>) }

CursorInputs ==
    { J1("id", JInt(5)), J1("name", JStr("an")), J1("age", JInt(3)),
      J1("email", JStr("a")), J2("id", JInt(1), "age", JInt(2)),
      JInt(5) }

TakeInputs == {JInt(n) : n \in (0 - MaxTake)..MaxTake}

SkipInputs == {JInt(n) : n \in 0..MaxSkip}

SelectInputs ==
    { JObj(<<>>), J1("name", JBool(TRUE)), J1("id", JBool(FALSE)),
      J1("age", JBool(FALSE)),
      J2("name", JBool(TRUE), "age", JBool(FALSE)),
      J2("name", JBool(TRUE), "email", JBool(TRUE)),
      J2("id", JBool(FALSE), "name", JBool(FALSE)) }

IncludeInputs ==
    { J1("posts", JBool(TRUE)),
      J1("posts", JObj(<<<<"where", J1("published", JBool(TRUE))>>,
                         <<"orderBy", J1("title", JStr("asc"))>>,
                         <<"take", JInt(0 - 1)>>>>)),
      J1("friends", JBool(TRUE)),
      J1("tags", JBool(TRUE)),
      J1("tags", JObj(<<<<"where", J1("label", JStr("a"))>>,
                        <<"orderBy", J1("label", JStr("asc"))>>,
                        <<"skip", JInt(1)>>,
                        <<"take", JInt(2)>>>>)),
      J1("tags", JObj(<<<<"orderBy", J1("label", JStr("desc"))>>,
                        <<"take", JInt(0 - 2)>>>>)),
      J1("posts", JObj(<<<<"take", JInt64(0 - 1, 0)>>>>)),
      J2("tags", J1("take", JInt(0 - 1)), "posts", J1("take", JInt(1))),
      J1("tags", JObj(<<<<"where", J1("label", JStr("a"))>>,
                        <<"orderBy", J1("id", JStr("asc"))>>,
                        <<"cursor", J1("id", JInt(1))>>>>)),
      J1("posts", JBool(FALSE)),
      J2("posts", JBool(TRUE), "tags", JBool(FALSE)) }

Optional(S) == {None} \cup {Some(x) : x \in S}

Entry(key, o) == IF is_none(o) THEN <<>> ELSE <<<<key, unwrap(o)>>>>

QueryJson(where, order_by, cursor, take, skip, page_size, page_number, include, select) ==
    JObj(Entry("where", where) \o Entry("orderBy", order_by)
         \o Entry("cursor", cursor) \o Entry("take", take)
         \o Entry("skip", skip) \o Entry("pageSize", page_size)
         \o Entry("pageNumber", page_number) \o Entry("include", include)
         \o Entry("select", select))

(* Queries that vary the filter, the order, the cursor and take. *)
FilterQueries ==
    { QueryJson(w, o, c, t, None, None, None, None, None) :
        w \in Optional(WhereInputs), o \in Optional(OrderByInputs),
        c \in Optional(CursorInputs), t \in Optional(TakeInputs) }

(* Queries that vary the projection, the inclusion and the pagination. *)
ShapeQueries ==
    { QueryJson(w, None, None, t, s, p, p, i, sel) :
        w \in {None, Some(J1("name", JStr("an")))},
        t \in Optional(TakeInputs), s \in Optional(SkipInputs),
        p \in Optional({JInt(2)}),
        i \in Optional(IncludeInputs), sel \in Optional(SelectInputs) }

(* Queries with every part present or absent. *)
FullQueries ==
    { QueryJson(w, o, c, t, s, p, p, i, sel) :
        w \in {None, Some(J2("name", JStr("an"),
                             "posts", J1("some", J1("published", JBool(TRUE)))))},
        o \in {None, Some(J1("id", JStr("desc")))},
        c \in {None, Some(J1("id", JInt(5)))},
        t \in {None, Some(JInt(0 - MaxTake))},
        s \in {None, Some(JInt(MaxSkip))},
        p \in {None, Some(JInt(2))},
        i \in {None, Some(J1("posts", JObj(<<<<"take", JInt(0 - 1)>>>>)))},
        sel \in {None, Some(J1("name", JBool(TRUE)))} }

(* Queries that page with pageSize and pageNumber, with or without
   skip and take. *)
PageQueries ==
    { QueryJson(None, o, None, t, s, ps, pn, None, None) :
        o \in {None, Some(J1("id", JStr("asc")))},
        t \in Optional(TakeInputs), s \in Optional(SkipInputs),
        ps \in Optional({JInt(2)}), pn \in Optional({JInt(1), JInt(3)}) }

(* JSON integers of the 64-bit range: 2^32, 2^32 + 1, -2^32, 2^32 - 1. *)
WideTakeInputs ==
    TakeInputs \cup { JInt64(1, 0), JInt64(1, 1), JInt64(0 - 1, 0),
                      JInt64(1, 0 - 1) }

(* Queries that only cut: take from the 64-bit range, no orderBy. *)
TakeQueries ==
    { QueryJson(None, None, None, Some(t), s, None, None, None, None) :
        t \in WideTakeInputs, s \in Optional(SkipInputs) }

(* Queries whose include or select is not of the expected form. *)
MalformedShapeQueries ==
    { QueryJson(w, None, None, None, None, None, None, i, sel) :
        w \in {None, Some(J1("name", JStr("an")))},
        i \in Optional({JStr("posts"), J1("friends", JBool(TRUE)),
                        J1("posts", JInt(1))}),
        sel \in Optional({JStr("name"), J1("name", JInt(1)),
                          JArr(<<JStr("name")>>)}) }

Queries ==
    UNION {FilterQueries, ShapeQueries, FullQueries, PageQueries, TakeQueries,
           MalformedShapeQueries}

PipelineTypes == {"Unique", "First", "Many"}

-----------------------------------------------------------------------------
(* The planner on the fixed schema *)

Init ==
    /\ builder = UserBuilder
    /\ calls = 0
    /\ built = Some(ModelBuilder_build(UserBuilder))
    /\ request = None
    /\ response = None

(* A query of the given kind compiled against the built model. *)
Compile(type, mutation_mode, json) ==
    /\ request' = Some([type |-> type, mutation_mode |-> mutation_mode,
                        json |-> json])
    /\ response' = Some(build_query_pipeline_from_json(unwrap(built).v,
                        GraphOf(unwrap(built).v), type, mutation_mode, json))
    /\ UNCHANGED <<builder, calls, built>>

(* The planner is idle and the schema is built. *)
Ready == is_some(built) /\ unwrap(built).ok /\ is_none(response)

Find ==
    /\ Ready
    /\ \E type \in PipelineTypes, json \in Queries : Compile(type, FALSE, json)

Mutate ==
    /\ Ready
    /\ \E json \in Queries : Compile("Many", TRUE, json)

(* The result is handed back; the planner keeps nothing of the query. *)
Return ==
    /\ is_some(response)
    /\ request' = None
    /\ response' = None
    /\ UNCHANGED <<builder, calls, built>>

Next == Find \/ Mutate \/ Return

Spec == Init /\ [][Next]_vars

-----------------------------------------------------------------------------
(* The model builder: configuration calls, then build, then unique queries *)

KeyLists == {<<"id">>, <<"age">>, <<"id", "age">>}

FieldChoices ==
    { Field("id", "_id", <<"I32">>, p, x, TRUE) :
        p \in BOOLEAN, x \in {"NoIndex", "Unique"} }
    \cup { Field("age", "age", <<"U32">>, p, x, TRUE) :
        p \in BOOLEAN, x \in {"NoIndex", "Index", "Unique"} }

UniqueWhereInputs ==
    { J1("id", JInt(1)), J1("age", JInt(3)), J2("age", JInt(3), "id", JInt(1)) }

InitBuilder ==
    /\ builder = ModelBuilder_new("User")
    /\ calls = 0
    /\ built = None
    /\ request = None
    /\ response = None

Configuring == is_none(built) /\ calls < MaxCalls

Configure(b) ==
    /\ builder' = b
    /\ calls' = calls + 1
    /\ UNCHANGED <<built, request, response>>

DeclareField ==
    /\ Configuring
    /\ \E f \in FieldChoices :
        /\ \A i \in 1..Len(builder.field_builders) :
                builder.field_builders[i].name # f.name
        /\ Configure(ModelBuilder_field(builder, f))

DeclarePrimary ==
    /\ Configuring
    /\ \E keys \in KeyLists : Configure(ModelBuilder_primary(builder, keys))

DeclarePrimarySettings ==
    /\ Configuring
    /\ \E keys \in KeyLists :
        Configure(ModelBuilder_primary_settings(builder, keys))

DeclareIndex ==
    /\ Configuring
    /\ \E keys \in KeyLists : Configure(ModelBuilder_index(builder, keys))

DeclareUnique ==
    /\ Configuring
    /\ \E keys \in KeyLists : Configure(ModelBuilder_unique(builder, keys))

Build ==
    /\ is_none(built)
    /\ built' = Some(ModelBuilder_build(builder))
    /\ UNCHANGED <<builder, calls, request, response>>

FindUnique ==
    /\ Ready
    /\ \E where \in Optional(UniqueWhereInputs) :
        Compile("Unique", FALSE,
                QueryJson(where, None, None, None, None, None, None, None, None))

NextBuilder ==
    \/ DeclareField
    \/ DeclarePrimary
    \/ DeclarePrimarySettings
    \/ DeclareIndex
    \/ DeclareUnique
    \/ Build
    \/ FindUnique
    \/ Return

SpecBuilder == InitBuilder /\ [][NextBuilder]_vars

-----------------------------------------------------------------------------
(* Properties *)

Responded == is_some(request) /\ is_some(response)
Succeeded == Responded /\ unwrap(response).ok
Stages == unwrap(response).v
Query == unwrap(request).json[2]
QueryKey(key) == MapGet(Query, key)
StageNames(p) == [i \in 1..Len(p) |-> StageName(p[i])]
StageDoc(p, name) == StageBody(p[FindStage(p, name)])[2]

(* The place of each stage kind in the documented order; a $lookup is
   either a prediction lookup (first group) or an include lookup (last). *)
StageRank(name) ==
    CASE name = "$match" -> 2
      [] name = "$unset" -> 3
      [] name = "$sort" -> 4
      [] name = "$skip" -> 5
      [] name = "$limit" -> 6
      [] name = "$project" -> 7
      [] name = "$set" -> 8
      [] OTHER -> 9

InOrder(p) ==
    /\ \A i, j \in 1..Len(p) :
        (i < j /\ StageName(p[i]) # "$lookup" /\ StageName(p[j]) # "$lookup")
            => StageRank(StageName(p[i])) <= StageRank(StageName(p[j]))
    /\ \A k \in 1..Len(p) :
        StageName(p[k]) = "$lookup" =>
            \/ \A i \in 1..(k - 1) : StageName(p[i]) = "$lookup"
            \/ \A j \in (k + 1)..Len(p) : StageName(p[j]) \in {"$lookup", "$set"}

(* C1: in every successfully compiled pipeline the stage groups appear in
   the order prediction lookups, $match, $unset, $sort, $skip, $limit,
   $project, include lookups; no stage of an earlier group follows a stage
   of a later group. *)
C1_StageOrder == Succeeded => InOrder(Stages)

(* A pipeline holding a stage of every group. *)
C1_Witness ==
    /\ Succeeded
    /\ StageNames(Stages) = <<"$lookup", "$match", "$unset", "$sort", "$skip",
                              "$limit", "$project", "$lookup", "$set">>

HasCursor == Responded /\ is_some(QueryKey("cursor"))
TakeNegative == is_some(QueryKey("take")) /\ unwrap(QueryKey("take"))[2] < 0
OrderDirection == unwrap(QueryKey("orderBy"))[2][1][2][2]

(* The cursor predicate inside the $match: the second conjunct when a where
   was compiled with it, else the whole $match (a where may compile to
   nothing). *)
CursorPredicate(p) ==
    IF is_some(QueryKey("where")) /\ StageDoc(p, "$match")[1][1] = "$and"
    THEN StageDoc(p, "$match")[1][2][2][2][2]
    ELSE StageDoc(p, "$match")

(* C2: with a cursor, orderBy = {k: dir} and take = t, the $sort direction
   for k is dir iff t >= 0 (t absent counts as t >= 0), inverted iff t < 0,
   and the cursor predicate on k is $gte iff (dir = asc) XOR (t < 0),
   otherwise $lte. *)
C2_CursorDirection ==
    (HasCursor /\ Succeeded) =>
        LET asc == OrderDirection = "asc"
            sort == StageDoc(Stages, "$sort")
            pred == CursorPredicate(Stages)
        IN  /\ FindStage(Stages, "$sort") # 0
            /\ FindStage(Stages, "$match") # 0
            /\ Len(sort) = 1
            /\ sort[1][2] = BI32(IF asc = TakeNegative THEN 0 - 1 ELSE 1)
            /\ Len(pred) = 1
            /\ Len(pred[1][2][2]) = 1
            /\ pred[1][2][2][1][1] = (IF asc # TakeNegative THEN "$gte" ELSE "$lte")

(* A descending cursor query with a negative take: sorted ascending and cut
   with $gte. *)
C2_Witness ==
    /\ HasCursor /\ Succeeded /\ TakeNegative
    /\ OrderDirection = "desc"
    /\ is_some(QueryKey("where"))
    /\ CursorPredicate(Stages)[1][2][2][1][1] = "$gte"

BuiltOk == is_some(built) /\ unwrap(built).ok
BuiltModel == unwrap(built).v
RequestType == unwrap(request).type
ResponseError == unwrap(response).err

WhereKeySetIn(keysets) ==
    /\ is_some(QueryKey("where"))
    /\ is_object(unwrap(QueryKey("where")))
    /\ KeySet(unwrap(QueryKey("where"))[2]) \in keysets

SeqRange(s) == {s[i] : i \in 1..Len(s)}

(* C3 as stated: FieldIsNotUnique iff kind = Unique and the key-set of
   where (an absent where included) is not a unique-query key-set. *)
C3_AsStated ==
    Responded =>
        ((ResponseError = "FieldIsNotUnique") <=>
            (RequestType = "Unique"
                /\ ~WhereKeySetIn(SeqRange(BuiltModel.unique_query_keys))))

(* C3: build_query_pipeline_from_json fails with FieldIsNotUnique iff
   kind = Unique, where is present and is an object, and its key-set is not
   one of the model's unique_query_keys; an absent where fails with
   InvalidQueryInput instead; First and Many never fail with
   FieldIsNotUnique. *)
C3_UniqueValidation ==
    Responded =>
        /\ (ResponseError = "FieldIsNotUnique") <=>
            (/\ RequestType = "Unique"
             /\ is_some(QueryKey("where"))
             /\ is_object(unwrap(QueryKey("where")))
             /\ ~WhereKeySetIn(SeqRange(BuiltModel.unique_query_keys)))
        /\ (RequestType = "Unique" /\ is_none(QueryKey("where")))
            => ResponseError = "InvalidQueryInput"

(* A Unique query on {id, age}, which is no index, is refused. *)
C3_Witness ==
    /\ Responded
    /\ RequestType = "Unique"
    /\ WhereKeySetIn({{"id", "age"}})
    /\ ResponseError = "FieldIsNotUnique"

(* Whether k is the sole item of a Primary or Unique index of the model. *)
SoleUniqueKey(model, k) ==
    \/ Len(model.primary.items) = 1 /\ model.primary.items[1].field_name = k
    \/ \E i \in 1..Len(model.indices) :
        /\ model.indices[i].index_type \in {"Primary", "Unique"}
        /\ Len(model.indices[i].items) = 1
        /\ model.indices[i].items[1].field_name = k

CursorWellFormed ==
    LET ob == QueryKey("orderBy")
        c == unwrap(QueryKey("cursor"))
    IN  /\ is_some(ob) /\ is_object(unwrap(ob)) /\ Len(unwrap(ob)[2]) = 1
        /\ is_object(c) /\ Len(c[2]) = 1
        /\ c[2][1][1] = unwrap(ob)[2][1][1]
        /\ SoleUniqueKey(BuiltModel, c[2][1][1])

(* C4: with a cursor, build_query_pipeline succeeds only if orderBy has
   exactly one key, the cursor is a single-key object on the same key and
   the key is the sole item of a Primary or Unique index; otherwise it
   fails with InvalidQueryInput and returns no stages. *)
C4_CursorValidated ==
    (HasCursor /\ RequestType # "Unique" /\ ~CursorWellFormed) =>
        (~unwrap(response).ok /\ ResponseError = "InvalidQueryInput")

UniqueIndexKeySets(model) ==
    {IndexKeySet(model.indices[i]) :
        i \in {j \in 1..Len(model.indices) :
                model.indices[j].index_type \in {"Primary", "Unique"}}}
    \cup {IndexKeySet(model.primary)}

(* C5: unique_query_keys of a built model is exactly the set of key-sets of
   its Unique and Primary indexes, so that a Unique query whose where
   key-set matches only a plain Index is rejected. *)
C5_UniqueQueryKeys ==
    BuiltOk =>
        /\ SeqRange(BuiltModel.unique_query_keys) = UniqueIndexKeySets(BuiltModel)
        /\ (Responded /\ RequestType = "Unique"
                /\ ~WhereKeySetIn(UniqueIndexKeySets(BuiltModel)))
            => ~unwrap(response).ok

(* C6: a built model has exactly one primary index: `indices` holds no
   Primary index whose key-set differs from that of `primary`. *)
C6_OnePrimary ==
    BuiltOk =>
        \A i \in 1..Len(BuiltModel.indices) :
            BuiltModel.indices[i].index_type = "Primary" =>
                IndexKeySet(BuiltModel.indices[i]) = IndexKeySet(BuiltModel.primary)

Projecting ==
    /\ Succeeded
    /\ ~unwrap(request).mutation_mode
    /\ is_some(QueryKey("select"))

SelectMap == unwrap(QueryKey("select"))[2]
SelectedFalse == {SelectMap[i][1] : i \in {j \in 1..Len(SelectMap) : ~SelectMap[j][2][2]}}
SelectedTrue == {SelectMap[i][1] : i \in {j \in 1..Len(SelectMap) : SelectMap[j][2][2]}}
ModelFields(model) == SeqRange(model.fields_vec)
PrimaryFields(model) ==
    {f \in ModelFields(model) : f.name \in IndexKeySet(model.primary)}

(* C7: for every non-empty select, whatever its mix of true and false and
   even when it sets a primary-key field to false, the $project includes
   the column of every field of the primary index. *)
C7_PrimaryProjected ==
    (Projecting /\ Len(SelectMap) > 0) =>
        /\ FindStage(Stages, "$project") # 0
        /\ \A f \in PrimaryFields(BuiltModel) :
            MapGet(StageDoc(Stages, "$project"), f.column_name) = Some(BI32(1))

(* The primary key set to false is projected all the same. *)
C7_Witness ==
    /\ Projecting
    /\ "id" \in SelectedFalse
    /\ MapGet(StageDoc(Stages, "$project"), "_id") = Some(BI32(1))

(* C8: besides the primary-key fields, a select with a false value projects
   every model field not set to false, a pure true-list projects exactly
   the fields set to true, and an empty select emits no $project. *)
C8_SelectLists ==
    Projecting =>
        IF Len(SelectMap) = 0 THEN FindStage(Stages, "$project") = 0
        ELSE
            /\ FindStage(Stages, "$project") # 0
            /\ KeySet(StageDoc(Stages, "$project")) =
                {f.column_name : f \in
                    {g \in ModelFields(BuiltModel) :
                        \/ g \in PrimaryFields(BuiltModel)
                        \/ SelectedFalse # {} /\ g.name \notin SelectedFalse
                        \/ SelectedFalse = {} /\ g.name \in SelectedTrue}}

(* A mixed select keeps a field it does not mention. *)
C8_Witness ==
    /\ Projecting
    /\ SelectedTrue = {"name"} /\ SelectedFalse = {"age"}
    /\ KeySet(StageDoc(Stages, "$project")) = {"_id", "user_name", "email", "secret"}

(* The field and relation names a where mentions, at any AND/OR/NOT depth. *)
RECURSIVE WhereNames(_)
WhereNames(where) ==
    UNION { IF where[2][i][1] \in {"AND", "OR"}
            THEN UNION {WhereNames(where[2][i][2][2][k]) :
                            k \in 1..Len(where[2][i][2][2])}
            ELSE IF where[2][i][1] = "NOT" THEN WhereNames(where[2][i][2])
            ELSE {where[2][i][1]} : i \in 1..Len(where[2]) }

(* The non-logical keys of a $match document, at any $and/$or/$nor depth. *)
RECURSIVE MatchKeys(_)
MatchKeys(doc) ==
    UNION { IF doc[i][1] \in {"$and", "$or", "$nor"}
            THEN UNION {MatchKeys(doc[i][2][2][k][2]) :
                            k \in 1..Len(doc[i][2][2])}
            ELSE {doc[i][1]} : i \in 1..Len(doc) }

QueriedNames ==
    (IF is_some(QueryKey("where")) THEN WhereNames(unwrap(QueryKey("where")))
     ELSE {})
    \cup (IF is_some(QueryKey("cursor"))
          THEN KeySet(unwrap(QueryKey("cursor"))[2]) ELSE {})

ScalarOnly ==
    \A n \in QueriedNames : is_some(Model_field(BuiltModel, n))

(* C9: for a where that references only scalar fields, the cursor
   predicate and sub-wheres under AND/OR/NOT included, every field key of
   the $match is the column_name of the field, never its name. *)
C9_MatchColumnNames ==
    (Succeeded /\ ScalarOnly /\ FindStage(Stages, "$match") # 0) =>
        MatchKeys(StageDoc(Stages, "$match")) =
            {unwrap(Model_field(BuiltModel, n)).column_name : n \in QueriedNames}

(* A nested where and a cursor on fields whose columns are named otherwise. *)
C9_Witness ==
    /\ Succeeded
    /\ QueriedNames = {"name", "age", "id"}
    /\ MatchKeys(StageDoc(Stages, "$match")) = {"user_name", "age", "_id"}

OrderByNames ==
    LET ob == unwrap(QueryKey("orderBy"))
        entries == IF is_array(ob) THEN ob[2] ELSE <<ob>>
    IN  {entries[i][2][1][1] : i \in 1..Len(entries)}

(* C10: every key of the $sort stage is the column_name of the field named
   in orderBy, not the API field name. *)
C10_SortColumnNames ==
    (Succeeded /\ FindStage(Stages, "$sort") # 0) =>
        KeySet(StageDoc(Stages, "$sort")) =
            {unwrap(Model_field(BuiltModel, n)).column_name :
                n \in {m \in OrderByNames : is_some(Model_field(BuiltModel, m))}}

QueryableKeys == SeqRange(BuiltModel.query_keys)

WhereKeysQueryable ==
    is_some(QueryKey("where")) =>
        WhereNames(unwrap(QueryKey("where"))) \subseteq QueryableKeys

OrderByKeysQueryable ==
    is_some(QueryKey("orderBy")) => OrderByNames \subseteq QueryableKeys

(* C11: in every successfully compiled query, every non-logical key of
   `where`, at any AND/OR/NOT depth, and every key of `orderBy` is one of
   the model's queryable keys. *)
C11_QueryableKeys ==
    Succeeded => (WhereKeysQueryable /\ OrderByKeysQueryable)

RelationCommands == {"some", "is", "none", "isNot", "all"}

(* The top-level relation predicates of `where`: <<relation, command,
   inner where>>. *)
TopRelationPredicates ==
    IF is_some(QueryKey("where")) /\ is_object(unwrap(QueryKey("where")))
    THEN { <<e[1], e[2][2][1][1], e[2][2][1][2]>> :
            e \in { x \in SeqRange(unwrap(QueryKey("where"))[2]) :
                        /\ is_some(Model_relation(BuiltModel, x[1]))
                        /\ is_object(x[2])
                        /\ Len(x[2][2]) = 1
                        /\ x[2][2][1][1] \in RelationCommands } }
    ELSE {}

LookupAs(stage) == unwrap(MapGet(StageBody(stage)[2], "as"))[2]
LookupPipeline(stage) == unwrap(MapGet(StageBody(stage)[2], "pipeline"))[2]

(* Positions of the $lookup stages named r that come before the $match. *)
PredictionLookups(p, r) ==
    { i \in 1..Len(p) :
        /\ StageName(p[i]) = "$lookup"
        /\ LookupAs(p[i]) = r
        /\ i < FindStage(p, "$match") }

(* The compiled where inside the $match: the first conjunct when a cursor
   predicate was joined to it. *)
WherePredicate(p) ==
    IF is_some(QueryKey("cursor"))
    THEN StageDoc(p, "$match")[1][2][2][1][2]
    ELSE StageDoc(p, "$match")

(* The where a lookup's inner $match holds besides the key equalities. *)
InnerWhere(pipeline) ==
    SelectSeq(StageDoc(pipeline, "$match"), LAMBDA e : e[1] # "$expr")

CompiledInnerWhere(r, inner) ==
    build_where_input(
        GraphOf(BuiltModel)[unwrap(Model_relation(BuiltModel, r)).model],
        GraphOf(BuiltModel), Some(inner)).v

(* C12: a relation predicate in `where` gives exactly one prediction
   $lookup for the relation, cut with $limit 1; the $match tests the
   relation array for size 1 with `some` and `is`, for size 0 with `none`,
   `isNot` and `all`; the lookup filters by the negated inner where for
   `all` and by the inner where as given otherwise. *)
C12_RelationPrediction ==
    Succeeded =>
        \A e \in TopRelationPredicates :
            /\ Cardinality(PredictionLookups(Stages, e[1])) = 1
            /\ \A i \in PredictionLookups(Stages, e[1]) :
                LET pipeline == LookupPipeline(Stages[i]) IN
                /\ FindStage(pipeline, "$limit") # 0
                /\ StageBody(pipeline[FindStage(pipeline, "$limit")]) = BI64(1)
                /\ FindStage(pipeline, "$match") # 0
                /\ InnerWhere(pipeline) =
                    IF e[2] = "all"
                    THEN <<<<"$nor",
                        BArray(<<BDoc(CompiledInnerWhere(e[1], e[3]))>>)>>>>
                    ELSE CompiledInnerWhere(e[1], e[3])
            /\ MapGet(WherePredicate(Stages), e[1]) =
                Some(BDoc(<<<<"$size",
                    BI32(IF e[2] \in {"some", "is"} THEN 1 ELSE 0)>>>>))

(* An `all` predicate compiled: the lookup filters by $nor, the match
   tests for size 0. *)
C12_Witness ==
    /\ Succeeded
    /\ \E e \in TopRelationPredicates :
        /\ e[2] = "all"
        /\ \E i \in PredictionLookups(Stages, e[1]) :
            InnerWhere(LookupPipeline(Stages[i]))[1][1] = "$nor"
        /\ MapGet(WherePredicate(Stages), e[1]) =
            Some(BDoc(<<<<"$size", BI32(0)>>>>))


(* The relations whose array is tested with $size anywhere in a compiled
   where document, the operands of $and, $or and $nor included. *)
RECURSIVE SizeTestedIn(_)
SizeTestedIn(doc) ==
    UNION { IF e[1] \in {"$and", "$or", "$nor"}
            THEN UNION { SizeTestedIn(d[2]) : d \in SeqRange(e[2][2]) }
            ELSE IF /\ is_some(Model_relation(BuiltModel, e[1]))
                    /\ e[2][1] = "document"
                    /\ Len(e[2][2]) > 0
                    /\ e[2][2][1][1] = "$size"
                 THEN {e[1]}
                 ELSE {} : e \in SeqRange(doc) }

(* The relations named by the $unset stages after the $match. *)
UnsetAfterMatch(p) ==
    { StageBody(p[i])[2] :
        i \in { j \in 1..Len(p) : /\ StageName(p[j]) = "$unset"
                                  /\ j > FindStage(p, "$match") } }

UnsetNames(p) ==
    { StageBody(p[i])[2] : i \in { j \in 1..Len(p) : StageName(p[j]) = "$unset" } }

(* C13: every relation whose $size test appears anywhere in the top-level
   $match, inside $and, $or and $nor included, has a prediction $lookup
   before the $match and an $unset after it; and every $unset names a
   relation whose prediction $lookup was emitted. *)
C13_LookupMatchUnset ==
    Succeeded =>
        /\ FindStage(Stages, "$match") # 0 =>
            \A r \in SizeTestedIn(StageDoc(Stages, "$match")) :
                /\ PredictionLookups(Stages, r) # {}
                /\ r \in UnsetAfterMatch(Stages)
        /\ \A r \in UnsetNames(Stages) :
            \E i \in 1..Len(Stages) :
                /\ StageName(Stages[i]) = "$lookup"
                /\ LookupAs(Stages[i]) = r

MutationMode == unwrap(request).mutation_mode

(* The entries of `include` that the planner compiles. *)
IncludeEntries ==
    IF ~MutationMode /\ is_some(QueryKey("include"))
          /\ is_object(unwrap(QueryKey("include")))
    THEN SeqRange(unwrap(QueryKey("include"))[2])
    ELSE {}

IsThrough(r) ==
    /\ is_some(Model_relation(BuiltModel, r))
    /\ is_some(unwrap(Model_relation(BuiltModel, r)).through)

(* Positions of the include $lookup stages named r: those after the
   $match. *)
IncludeLookups(p, r) ==
    { i \in 1..Len(p) :
        /\ StageName(p[i]) = "$lookup"
        /\ LookupAs(p[i]) = r
        /\ i > FindStage(p, "$match") }

PositionsOf(p, name) == { i \in 1..Len(p) : StageName(p[i]) = name }

(* The pipeline of the nested query of an included through relation, on
   the model the join reaches. *)
NestedThroughPipeline(r, value) ==
    LET relation == unwrap(Model_relation(BuiltModel, r))
        join_model == GraphOf(BuiltModel)[unwrap(relation.through)]
        foreign == unwrap(Model_relation(join_model, relation.references[1]))
    IN  build_query_pipeline_from_json(GraphOf(BuiltModel)[foreign.model],
            GraphOf(BuiltModel), "Many", FALSE, value).v

PagingStages == <<"$sort", "$skip", "$limit">>

(* C14: in the $lookup of an included through relation, the $sort, $skip
   and $limit of the nested query are absent from the innermost pipeline
   and stand in the join pipeline after $unwind and $replaceRoot, in the
   order sort, skip, limit. *)
C14_ThroughPaging ==
    Succeeded =>
        \A e \in { x \in IncludeEntries : IsThrough(x[1]) /\ is_object(x[2]) } :
            /\ IncludeLookups(Stages, e[1]) # {}
            /\ \A i \in IncludeLookups(Stages, e[1]) :
                LET outer == LookupPipeline(Stages[i])
                    inner == LookupPipeline(outer[FindStage(outer, "$lookup")])
                    nested == NestedThroughPipeline(e[1], e[2])
                IN  /\ FindStage(outer, "$unwind") # 0
                    /\ FindStage(outer, "$replaceRoot") # 0
                    /\ \A n \in 1..3 :
                        FindStage(nested, PagingStages[n]) # 0 =>
                            /\ FindStage(inner, PagingStages[n]) = 0
                            /\ \E k \in 1..Len(outer) :
                                /\ PositionsOf(outer, PagingStages[n]) = {k}
                                /\ k > FindStage(outer, "$unwind")
                                /\ k > FindStage(outer, "$replaceRoot")
                                /\ outer[k] =
                                    nested[FindStage(nested, PagingStages[n])]
                    /\ \A m, n \in 1..3 :
                        m < n =>
                            \A a \in PositionsOf(outer, PagingStages[m]) :
                                \A b \in PositionsOf(outer, PagingStages[n]) :
                                    a < b

(* A through relation included with orderBy, skip and take: all three
   stages follow $replaceRoot in the join pipeline. *)
C14_Witness ==
    /\ Succeeded
    /\ \E e \in { x \in IncludeEntries : IsThrough(x[1]) /\ is_object(x[2]) } :
        \E i \in IncludeLookups(Stages, e[1]) :
            LET outer == LookupPipeline(Stages[i])
                nested == NestedThroughPipeline(e[1], e[2])
            IN  /\ \A n \in 1..3 : FindStage(nested, PagingStages[n]) # 0
                /\ Len(outer) = 7
                /\ StageName(outer[4]) = "$replaceRoot"
                /\ StageName(outer[5]) = "$sort"
                /\ StageName(outer[6]) = "$skip"
                /\ StageName(outer[7]) = "$limit"

(* Whether an include value carries a take below zero. *)
IncludeTakeNegative(value) ==
    /\ is_object(value)
    /\ is_some(MapGet(value[2], "take"))
    /\ i64_negative(unwrap(MapGet(value[2], "take")))

(* Whether the stage after position i reverses the array of relation r. *)
ReversedAfter(p, i, r) ==
    /\ i < Len(p)
    /\ p[i + 1] =
        Stage("$set", BDoc(<<<<r, BDoc(<<<<"$reverseArray",
                                          BString("$" \o r)>>>>)>>>>))

SetAfter(p, i) == i < Len(p) /\ StageName(p[i + 1]) = "$set"

(* C15: the $lookup of an included relation, direct or through a join
   table, is immediately followed by a $set with $reverseArray on the
   relation when its take is negative, and by no $set when its take is
   absent, zero or positive. *)
C15_ReverseArray ==
    Succeeded =>
        \A e \in { x \in IncludeEntries : include_value_accepted(x[2]) } :
            /\ Cardinality(IncludeLookups(Stages, e[1])) = 1
            /\ \A i \in IncludeLookups(Stages, e[1]) :
                IF IncludeTakeNegative(e[2])
                THEN ReversedAfter(Stages, i, e[1])
                ELSE ~SetAfter(Stages, i)

(* A through relation with a negative take is reversed and, in the same
   pipeline, a direct relation with a positive take is not. *)
C15_Witness ==
    /\ Succeeded
    /\ \E e \in IncludeEntries :
        /\ IsThrough(e[1])
        /\ IncludeTakeNegative(e[2])
        /\ \E i \in IncludeLookups(Stages, e[1]) : ReversedAfter(Stages, i, e[1])
    /\ \E e \in IncludeEntries :
        /\ ~IsThrough(e[1])
        /\ is_object(e[2])
        /\ ~IncludeTakeNegative(e[2])
        /\ \E i \in IncludeLookups(Stages, e[1]) : ~SetAfter(Stages, i)

(* The query with the given keys removed. *)
QueryWithout(keys) ==
    JObj(SelectSeq(Query, LAMBDA e : e[1] \notin keys))

(* What the planner answers to the request's query with keys removed. *)
CompiledWithout(keys) ==
    build_query_pipeline_from_json(BuiltModel, GraphOf(BuiltModel), RequestType,
                                   MutationMode, QueryWithout(keys))

Paged == is_some(QueryKey("pageSize")) /\ is_some(QueryKey("pageNumber"))

(* C16: with pageSize and pageNumber the pipeline skips
   (pageNumber - 1) * pageSize and limits to pageSize, and skip and take
   have no effect: the pipeline is that of the query without them. *)
C16_PagingOverrides ==
    (Succeeded /\ Paged) =>
        /\ StageBody(Stages[FindStage(Stages, "$skip")]) =
            BI64((unwrap(QueryKey("pageNumber"))[2] - 1)
                    * unwrap(QueryKey("pageSize"))[2])
        /\ StageBody(Stages[FindStage(Stages, "$limit")]) =
            BI64(unwrap(QueryKey("pageSize"))[2])
        /\ CompiledWithout({"skip", "take"}) = unwrap(response)

(* |take| of a JSON integer as a 64-bit BSON integer. *)
I64Abs(j) ==
    IF i64_high(j) = 0
    THEN BI64(IF j[2] < 0 THEN 0 - j[2] ELSE j[2])
    ELSE IF i64_negative(j)
    THEN <<"i64", 0 - j[2], 0 - j[3]>>
    ELSE <<"i64", j[2], j[3]>>

TakeGiven ==
    /\ is_some(QueryKey("take"))
    /\ is_number(unwrap(QueryKey("take")))
    /\ ~Paged

(* C17: an integer take of the 64-bit range given without pageSize and
   pageNumber yields exactly one $limit, of value |take|; a negative take
   with no orderBy compiles without error and without a $sort. *)
C17_LimitIsAbsTake ==
    (Responded /\ TakeGiven) =>
        /\ Succeeded =>
            /\ Cardinality(PositionsOf(Stages, "$limit")) = 1
            /\ StageBody(Stages[FindStage(Stages, "$limit")]) =
                I64Abs(unwrap(QueryKey("take")))
        /\ ( /\ i64_negative(unwrap(QueryKey("take")))
             /\ KeySet(Query) \subseteq {"take", "skip"}
             /\ RequestType # "Unique" ) =>
            /\ Succeeded
            /\ FindStage(Stages, "$sort") = 0

(* What the planner answers outside mutation mode to the request's query
   with keys removed. *)
QueriedWithout(keys) ==
    build_query_pipeline_from_json(BuiltModel, GraphOf(BuiltModel), RequestType,
                                   FALSE, QueryWithout(keys))

(* C18: in mutation mode include and select are ignored, whatever their
   values: the answer is that of the query without the two keys, and a
   pipeline has no $project and no include $lookup. *)
C18_MutationIgnoresShape ==
    (Responded /\ MutationMode) =>
        /\ unwrap(response) = QueriedWithout({"include", "select"})
        /\ Succeeded =>
            /\ FindStage(Stages, "$project") = 0
            /\ \A i \in 1..Len(Stages) :
                StageName(Stages[i]) = "$lookup" =>
                    i < FindStage(Stages, "$match")

(* A mutation query whose include and select are refused outside mutation
   mode compiles in mutation mode. *)
C18_Witness ==
    /\ Succeeded
    /\ MutationMode
    /\ is_some(QueryKey("include"))
    /\ is_some(QueryKey("select"))
    /\ ~QueriedWithout({"include"}).ok
    /\ ~QueriedWithout({"select"}).ok

(* C19: a where holding only an empty AND or an empty OR compiles without
   error and emits no $match. *)
C19_EmptyLogical ==
    ( /\ Responded
      /\ RequestType # "Unique"
      /\ KeySet(Query) = {"where"}
      /\ \E k \in {"AND", "OR"} :
            unwrap(QueryKey("where")) = J1(k, JArr(<<>>)) ) =>
        /\ Succeeded
        /\ FindStage(Stages, "$match") = 0

(* The entries of the request's orderBy: the elements of an array, or the
   object itself. *)
OrderByEntries ==
    IF is_array(unwrap(QueryKey("orderBy")))
    THEN unwrap(QueryKey("orderBy"))[2]
    ELSE <<unwrap(QueryKey("orderBy"))>>

WellFormedOrderEntry(j) ==
    /\ is_object(j)
    /\ Len(j[2]) = 1
    /\ is_string(j[2][1][2])
    /\ j[2][1][2][2] \in {"asc", "desc"}

(* C20: a query compiles only if every orderBy entry is a single-key
   object whose value is "asc" or "desc"; no entry is dropped, so the $sort
   of a compiled query has one key per orderBy entry. *)
C20_OrderByStrict ==
    (Succeeded /\ is_some(QueryKey("orderBy"))) =>
        /\ \A i \in 1..Len(OrderByEntries) :
            WellFormedOrderEntry(OrderByEntries[i])
        /\ Len(OrderByEntries) > 0 =>
            /\ FindStage(Stages, "$sort") # 0
            /\ Len(StageDoc(Stages, "$sort")) = Len(OrderByEntries)

(* C21: whatever JSON is given as the query, the planner answers with a
   stage sequence or with an error value; it never panics. *)
C21_NeverPanics ==
    Responded => (Succeeded \/ ResponseError # "Panic")

-----------------------------------------------------------------------------
(* The input decoder: decode_field_input on one field and one JSON value *)

(* A field as the decoder reads it: its type and its optionality. *)
DecoderField(name, field_type, optionality) ==
    [name |-> name, field_type |-> field_type, optionality |-> optionality]

SetValue(value) == <<"SetValue", value>>
AtomicUpdate(update_type, value) == <<"AtomicUpdate", update_type, value>>
ValueNull == <<"Null">>

(* Strings Decimal::from_str accepts, among the strings the decoder is
   given. *)
DecimalStrings == {"1.5"}

(* Variant: null is accepted whatever the optionality. *)
decode_null_lenient(field) == Ok(SetValue(ValueNull))

decode_null(field) ==
    IF field.optionality = "Optional" THEN Ok(SetValue(ValueNull))
    ELSE Err("UnexpectedNull")

SignedTypes == {"I8", "I16", "I32", "I64", "I128"}
UnsignedTypes == {"U8", "U16", "U32", "U64", "U128"}
FloatTypes == {"F32", "F64"}

(* The NumberInputType of a field type; "" where the source panics. *)
number_input_type(field_type) ==
    CASE field_type[1] \in SignedTypes -> "Int"
      [] field_type[1] \in UnsignedTypes -> "UInt"
      [] field_type[1] \in FloatTypes -> "Float"
      [] field_type[1] = "Decimal" -> "Decimal"
      [] OTHER -> ""

(* as_i64, as_u64, as_f64 and as_str give None on a JSON value of another
   kind, and as_u64 gives None on a negative number. *)
number_to_target_type(json_value, target, number_type) ==
    CASE number_type = "Int" ->
            IF ~is_number(json_value) THEN Err("WrongInputType")
            ELSE Ok(<<target[1], json_value[2]>>)
      [] number_type = "UInt" ->
            IF ~is_number(json_value) \/ i64_negative(json_value)
            THEN Err("WrongInputType")
            ELSE Ok(<<target[1], json_value[2]>>)
      [] number_type = "Float" ->
            IF ~is_number(json_value) THEN Err("Expected")
            ELSE Ok(<<target[1], json_value[2]>>)
      [] number_type = "Decimal" ->
            IF ~is_string(json_value) THEN Err("WrongInputType")
            ELSE IF json_value[2] \in DecimalStrings
            THEN Ok(<<"Decimal", json_value[2]>>)
            ELSE Err("WrongInputType")

str_to_target_type(json_str, target) ==
    CASE target[1] = "ObjectId" -> Ok(<<"ObjectId", json_str>>)
      [] target[1] = "String" -> Ok(<<"String", json_str>>)
      [] target[1] = "Date" ->
            IF json_str \in DateStrings THEN Ok(<<"Date", json_str>>)
            ELSE Err("WrongDateFormat")
      [] target[1] = "DateTime" ->
            IF json_str \in DateTimeStrings THEN Ok(<<"DateTime", json_str>>)
            ELSE Err("WrongDateTimeFormat")
      [] target[1] = "Enum" ->
            IF target[2] \notin DOMAIN GraphEnums THEN Panic
            ELSE IF SeqContains(GraphEnums[target[2]], json_str)
            THEN Ok(<<"String", json_str>>)
            ELSE Err("WrongEnumChoice")
      [] OTHER -> Panic

decode_string_input(json_value, field) ==
    IF is_string(json_value) THEN
        Try(str_to_target_type(json_value[2], field.field_type),
            LAMBDA v : Ok(SetValue(v)))
    ELSE IF is_object(json_value) THEN
        Try(one_length_json_obj(json_value), LAMBDA one :
            IF one[1] = "set" THEN
                IF is_null(one[2]) THEN decode_null(field)
                ELSE IF is_string(one[2]) THEN
                    Try(str_to_target_type(one[2][2], field.field_type),
                        LAMBDA v : Ok(SetValue(v)))
                ELSE Err("WrongInputType")
            ELSE Err("WrongInputUpdator"))
    ELSE Err("WrongInputType")

decode_bool_input(json_value, field) ==
    IF is_boolean(json_value) THEN Ok(SetValue(<<"Bool", json_value[2]>>))
    ELSE IF is_object(json_value) THEN
        Try(one_length_json_obj(json_value), LAMBDA one :
            IF one[1] = "set" THEN
                IF is_null(one[2]) THEN decode_null(field)
                ELSE IF is_boolean(one[2])
                THEN Ok(SetValue(<<"Bool", one[2][2]>>))
                ELSE Err("WrongInputType")
            ELSE Err("WrongInputUpdator"))
    ELSE Err("WrongInputType")

(* The argument of an updator object.  A number or a string argument is
   converted from json_value, the updator object itself, as the source
   passes it. *)
decode_number_arg(json_value, value, field, number_type) ==
    IF is_number(value)
    THEN number_to_target_type(json_value, field.field_type, number_type)
    ELSE IF is_string(value) THEN
        IF number_type = "Decimal"
        THEN number_to_target_type(json_value, field.field_type, number_type)
        ELSE Err("WrongInputType")
    ELSE Err("WrongInputType")

decode_number_input(json_value, field) ==
    Let(number_input_type(field.field_type), LAMBDA number_type :
    IF number_type = "" THEN Panic
    ELSE IF is_string(json_value) THEN
        IF number_type = "Decimal" THEN
            Try(number_to_target_type(json_value, field.field_type, number_type),
                LAMBDA v : Ok(SetValue(v)))
        ELSE Err("WrongInputType")
    ELSE IF is_number(json_value) THEN
        Try(number_to_target_type(json_value, field.field_type, number_type),
            LAMBDA v : Ok(SetValue(v)))
    ELSE IF is_object(json_value) THEN
        Try(one_length_json_obj(json_value), LAMBDA one :
            IF is_null(one[2]) THEN
                IF one[1] = "set" THEN decode_null(field)
                ELSE Err("WrongInputType")
            ELSE
                Try(decode_number_arg(json_value, one[2], field, number_type),
                    LAMBDA arg :
                    CASE one[1] = "set" -> Ok(SetValue(arg))
                      [] one[1] = "increment" ->
                            Ok(AtomicUpdate("Increment", arg))
                      [] one[1] = "decrement" ->
                            Ok(AtomicUpdate("Decrement", arg))
                      [] one[1] = "multiply" ->
                            Ok(AtomicUpdate("Multiply", arg))
                      [] one[1] = "divide" -> Ok(AtomicUpdate("Divide", arg))
                      [] OTHER -> Err("WrongInputUpdator")))
    ELSE Err("WrongInputType"))

StringLikeTypes == {"ObjectId", "String", "Date", "DateTime", "Enum"}

decode_field_input(json_value, field) ==
    IF is_null(json_value) THEN
        IF field.optionality = "Optional" THEN Ok(SetValue(ValueNull))
        ELSE Err("UnexpectedNull")
    ELSE
        CASE field.field_type[1] = "Undefined" -> Panic
          [] field.field_type[1] \in StringLikeTypes ->
                decode_string_input(json_value, field)
          [] field.field_type[1] = "Bool" -> decode_bool_input(json_value, field)
          [] OTHER -> decode_number_input(json_value, field)

(* The fields and the JSON values the decoder is exercised on. *)
DecoderFieldTypes ==
    { <<"I32">>, <<"I64">>, <<"U32">>, <<"F64">>, <<"Decimal">>, <<"String">>,
      <<"Bool">>, <<"Date">>, <<"DateTime">>, <<"ObjectId">>,
      <<"Enum", "Role">> }

DecoderFields ==
    { DecoderField("f", t, o) :
        t \in DecoderFieldTypes, o \in {"Optional", "Required"} }

UpdatorKeys ==
    {"set", "increment", "decrement", "multiply", "divide", "push"}

DecoderInputs ==
    UNION { { JNull, JInt(1), JInt(0 - 1), JStr("a"), JStr("1.5"),
              JStr("ADMIN"), JStr("2020-01-02"), JStr("2020-01-02T03:04:05Z"),
              JBool(TRUE), JArr(<<>>),
              J2("set", JInt(1), "increment", JInt(1)) },
            { J1(k, v) : k \in UpdatorKeys,
                         v \in { JNull, JInt(2), JInt(0 - 2), JStr("a"),
                                 JStr("1.5"), JBool(FALSE) } } }

DecodeField ==
    /\ is_none(response)
    /\ \E field \in DecoderFields, json \in DecoderInputs :
        /\ request' = Some([type |-> "Decode", field |-> field, json |-> json])
        /\ response' = Some(decode_field_input(json, field))
    /\ UNCHANGED <<builder, calls, built>>

NextDecoder == DecodeField \/ Return

SpecDecoder == Init /\ [][NextDecoder]_vars

-----------------------------------------------------------------------------
(* Properties of the input decoder *)

Decoded == Responded /\ RequestType = "Decode"
DecodedField == unwrap(request).field
DecodedJson == unwrap(request).json
DecodedResult == unwrap(response)

(* The updator and the argument of a single-key object. *)
IsUpdator(j) == is_object(j) /\ Len(j[2]) = 1
UpdatorKey(j) == j[2][1][1]
UpdatorArg(j) == j[2][1][2]

(* C22: JSON null, bare or under `set`, decodes to SetValue(Null) exactly
   when the field is Optional and fails with UnexpectedNull when it is
   required; null under any other updator is an error. *)
C22_NullDecoding ==
    Decoded =>
        /\ ( \/ is_null(DecodedJson)
             \/ DecodedJson = J1("set", JNull) ) =>
                DecodedResult =
                    IF DecodedField.optionality = "Optional"
                    THEN Ok(<<"SetValue", <<"Null">>>>)
                    ELSE Err("UnexpectedNull")
        /\ ( /\ IsUpdator(DecodedJson)
             /\ UpdatorKey(DecodedJson) # "set"
             /\ is_null(UpdatorArg(DecodedJson)) ) =>
                ~DecodedResult.ok

(* {set: null} on an optional numeric field decoded to SetValue(Null). *)
C22_Witness ==
    /\ Decoded
    /\ DecodedJson = J1("set", JNull)
    /\ DecodedField.optionality = "Optional"
    /\ DecodedField.field_type = <<"I32">>
    /\ DecodedResult = Ok(<<"SetValue", <<"Null">>>>)

ArithmeticUpdators ==
    [increment |-> "Increment", decrement |-> "Decrement",
     multiply |-> "Multiply", divide |-> "Divide"]

(* Whether the JSON value is a number the field type takes. *)
NumberValidFor(field_type, j) ==
    /\ is_number(j)
    /\ \/ field_type[1] \in SignedTypes \cup FloatTypes
       \/ field_type[1] \in UnsignedTypes /\ ~i64_negative(j)

(* C23: on a numeric field, {op: n} with op among increment, decrement,
   multiply and divide and n a number valid for the field type decodes to
   AtomicUpdate(op, n) carrying n as the typed value, and {set: n} to
   SetValue(n); on string, date, date-time, enum and bool fields the four
   arithmetic updators are rejected. *)
C23_AtomicUpdates ==
    (Decoded /\ IsUpdator(DecodedJson)) =>
        LET op == UpdatorKey(DecodedJson)
            n == UpdatorArg(DecodedJson)
            type == DecodedField.field_type
        IN  /\ NumberValidFor(type, n) =>
                /\ op \in DOMAIN ArithmeticUpdators =>
                    DecodedResult =
                        Ok(<<"AtomicUpdate", ArithmeticUpdators[op],
                             <<type[1], n[2]>>>>)
                /\ op = "set" =>
                    DecodedResult = Ok(<<"SetValue", <<type[1], n[2]>>>>)
            /\ ( /\ type[1] \in {"String", "Date", "DateTime", "Enum", "Bool"}
                 /\ op \in DOMAIN ArithmeticUpdators ) =>
                    ~DecodedResult.ok

-----------------------------------------------------------------------------
(* The predicate parser: parse_bson_where_entry on one field type and one
   JSON value *)

WhereFieldTypes ==
    { <<"ObjectId">>, <<"I32">>, <<"F64">>, <<"String">>, <<"Date">>,
      <<"DateTime">>, <<"Bool">>, <<"Enum", "Role">> }

ComparisonKeys == {"equals", "not", "gt", "gte", "lt", "lte", "in", "notIn"}

PredicateOperands ==
    { JInt(1), JBool(TRUE), JStr("a"), JStr("507f1f77bcf86cd799439011"),
      JStr("2020-01-02"), JStr("2020-01-02T03:04:05Z"),
      JStr("2020-01-02T05:04:05+02:00"), JStr("ADMIN"), JStr("GUEST"),
      JArr(<<>>), JArr(<<JInt(1), JInt(2)>>), JArr(<<JStr("b"), JStr("a")>>),
      JArr(<<JStr("USER"), JStr("ADMIN")>>),
      JArr(<<JStr("ADMIN"), JStr("GUEST")>>),
      JArr(<<JStr("507f1f77bcf86cd799439011")>>),
      JArr(<<JStr("2020-01-02")>>),
      JArr(<<JStr("2020-01-02T03:04:05Z")>>) }

PatternKeys == {"contains", "startsWith", "endsWith", "matches"}

PredicateInputs ==
    UNION { PredicateOperands,
            { J1(k, v) : k \in ComparisonKeys, v \in PredicateOperands },
            { J1(k, JStr("a")) : k \in PatternKeys \cup {"mode", "has"} },
            UNION { { J2(k1, JStr("a"), k2, JStr("b")) :
                        k2 \in PatternKeys \ {k1} } : k1 \in PatternKeys },
            { J2("contains", JStr("a.b"), "mode", JStr(m)) :
                m \in {"caseInsensitive", "default"} },
            { J2("gte", JInt(1), "lt", JInt(2)) } }

ParseWhere ==
    /\ is_none(response)
    /\ \E field_type \in WhereFieldTypes, json \in PredicateInputs :
        /\ request' = Some([type |-> "Where", field_type |-> field_type,
                            json |-> json])
        /\ response' = Some(parse_bson_where_entry(field_type, json))
    /\ UNCHANGED <<builder, calls, built>>

NextWhere == ParseWhere \/ Return

SpecWhere == Init /\ [][NextWhere]_vars

-----------------------------------------------------------------------------
(* Properties of the predicate parser *)

Parsed == Responded /\ RequestType = "Where"
ParsedType == unwrap(request).field_type
ParsedJson == unwrap(request).json
ParsedResult == unwrap(response)

SigilKeys ==
    [equals |-> "$eq", not |-> "$ne", gt |-> "$gt", gte |-> "$gte",
     lt |-> "$lt", lte |-> "$lte", in |-> "$in", notIn |-> "$nin"]

OrderedFamilies ==
    {"ObjectId", "I32", "F64", "String", "Date", "DateTime"}

(* C24: for the ObjectId, integer, float, string, date and date-time
   families, a predicate {op: v} with op among equals, not, gt, gte, lt,
   lte, in and notIn that parses is emitted under the key $eq, $ne, $gt,
   $gte, $lt, $lte, $in, $nin of the operator, never under a key without
   the leading `$`. *)
C24_SigilKeys ==
    ( /\ Parsed
      /\ ParsedType[1] \in OrderedFamilies
      /\ IsUpdator(ParsedJson)
      /\ UpdatorKey(ParsedJson) \in ComparisonKeys
      /\ ParsedResult.ok ) =>
        /\ ParsedResult.v[1] = "document"
        /\ Len(ParsedResult.v[2]) = 1
        /\ ParsedResult.v[2][1][1] = SigilKeys[UpdatorKey(ParsedJson)]

(* The strings of a JSON array of strings. *)
StringsOf(arr) == [i \in 1..Len(arr[2]) |-> arr[2][i][2]]

(* C25: on an Enum field, `in` / `notIn` over an array of members of the
   enum compiles to $in / $nin over those elements in order, and an array
   holding a string that is no member fails with the undefined-enum-value
   error. *)
C25_EnumLists ==
    ( /\ Parsed
      /\ ParsedType[1] = "Enum"
      /\ IsUpdator(ParsedJson)
      /\ UpdatorKey(ParsedJson) \in {"in", "notIn"}
      /\ is_array(UpdatorArg(ParsedJson))
      /\ \A e \in SeqRange(UpdatorArg(ParsedJson)[2]) : is_string(e) ) =>
        LET names == StringsOf(UpdatorArg(ParsedJson))
            members == SeqRange(GraphEnums[ParsedType[2]])
        IN  IF SeqRange(names) \subseteq members
            THEN ParsedResult =
                    Ok(BDoc(<<<<SigilKeys[UpdatorKey(ParsedJson)],
                        BArray([i \in 1..Len(names) |-> BString(names[i])])>>>>))
            ELSE ParsedResult = Err("UndefinedEnumValue")

(* The predicate object without the entry of key k. *)
PredicateWithout(j, k) == JObj(SelectSeq(j[2], LAMBDA e : e[1] # k))

SuppliedPatterns(j) == KeySet(j[2]) \cap PatternKeys

(* C29: when a String predicate object supplies more than one of contains,
   startsWith, endsWith and matches, every one of them constrains the
   emitted predicate: leaving any of them out gives another predicate. *)
C29_PatternsAllApply ==
    ( /\ Parsed
      /\ ParsedType[1] = "String"
      /\ is_object(ParsedJson)
      /\ Cardinality(SuppliedPatterns(ParsedJson)) > 1
      /\ ParsedResult.ok ) =>
        \A k \in SuppliedPatterns(ParsedJson) :
            parse_bson_where_entry(ParsedType, PredicateWithout(ParsedJson, k))
                # ParsedResult

(* The column a field of a model is stored under. *)
ColumnOf(model, name) == unwrap(Model_field(model, name)).column_name

(* The pipeline of the nested query of an included direct relation. *)
NestedDirectPipeline(r, value) ==
    IF is_object(value)
    THEN build_query_pipeline_from_json(
            GraphOf(BuiltModel)[unwrap(Model_relation(BuiltModel, r)).model],
            GraphOf(BuiltModel), RequestType, FALSE, value).v
    ELSE <<>>

(* The equalities and the `let` a direct relation joins on. *)
DirectEqualities(r) ==
    LET relation == unwrap(Model_relation(BuiltModel, r))
        remote == GraphOf(BuiltModel)[relation.model]
    IN  [i \in 1..Len(relation.fields) |->
            BDoc(<<<<"$eq", BArray(<<
                BString("$" \o ColumnOf(remote, relation.references[i])),
                BString("$$" \o relation.references[i])>>)>>>>)]

DirectLet(r) ==
    LET relation == unwrap(Model_relation(BuiltModel, r))
    IN  [i \in 1..Len(relation.fields) |->
            <<relation.references[i],
              BString("$" \o ColumnOf(BuiltModel, relation.fields[i]))>>]

DirectIncludes ==
    { x \in IncludeEntries :
        /\ is_some(Model_relation(BuiltModel, x[1]))
        /\ ~IsThrough(x[1])
        /\ include_value_accepted(x[2]) }

(* C26: the $lookup of an included direct relation binds each remote key
   to the local column in `let`, and its pipeline has exactly one $match,
   holding under $expr.$and one equality per (fields[i], references[i]);
   a $match of the nested query keeps its place and its predicates,
   otherwise the new $match is the first inner stage. *)
C26_DirectLookup ==
    Succeeded =>
        \A e \in DirectIncludes : \A i \in IncludeLookups(Stages, e[1]) :
            LET inner == LookupPipeline(Stages[i])
                nested == NestedDirectPipeline(e[1], e[2])
                at == FindStage(nested, "$match")
            IN  /\ MapGet(StageBody(Stages[i])[2], "let") =
                    Some(BDoc(DirectLet(e[1])))
                /\ Cardinality(PositionsOf(inner, "$match")) = 1
                /\ MapGet(StageDoc(inner, "$match"), "$expr") =
                    Some(BDoc(<<<<"$and", BArray(DirectEqualities(e[1]))>>>>))
                /\ IF at # 0
                   THEN /\ FindStage(inner, "$match") = at
                        /\ Len(inner) = Len(nested)
                        /\ \A k \in 1..Len(nested) :
                            k # at => inner[k] = nested[k]
                        /\ SeqRange(StageDoc(nested, "$match"))
                            \subseteq SeqRange(StageDoc(inner, "$match"))
                   ELSE /\ FindStage(inner, "$match") = 1
                        /\ Tail(inner) = nested

(* A direct relation included with a nested where: the nested $match kept
   its predicate and gained the key equality. *)
C26_Witness ==
    /\ Succeeded
    /\ \E e \in DirectIncludes : \E i \in IncludeLookups(Stages, e[1]) :
        /\ FindStage(NestedDirectPipeline(e[1], e[2]), "$match") # 0
        /\ Len(StageDoc(LookupPipeline(Stages[i]), "$match")) = 2
        /\ is_some(MapGet(StageDoc(LookupPipeline(Stages[i]), "$match"),
                          "published"))

ThroughIncludes ==
    { x \in IncludeEntries : IsThrough(x[1]) /\ include_value_accepted(x[2]) }

(* The relations of the join table towards the local and the foreign side
   of a through relation. *)
JoinModel(r) ==
    GraphOf(BuiltModel)[unwrap(unwrap(Model_relation(BuiltModel, r)).through)]
LocalSide(r) ==
    unwrap(Model_relation(JoinModel(r),
                          unwrap(Model_relation(BuiltModel, r)).fields[1]))
ForeignSide(r) ==
    unwrap(Model_relation(JoinModel(r),
                          unwrap(Model_relation(BuiltModel, r)).references[1]))

(* The equalities that tie the foreign model's rows to a join-table row. *)
ForeignEqualities(r) ==
    [i \in 1..Len(ForeignSide(r).fields) |->
        BDoc(<<<<"$eq", BArray(<<
            BString("$" \o ColumnOf(GraphOf(BuiltModel)[ForeignSide(r).model],
                                    ForeignSide(r).references[i])),
            BString("$$" \o ForeignSide(r).fields[i])>>)>>>>)]

(* Whether a stage matches join-table rows on the local keys: one equality
   per key of the local side, against the variable `let` binds to the
   local column. *)
MatchesLocalKeys(stage, let, r) ==
    /\ StageName(stage) = "$match"
    /\ Len(StageBody(stage)[2]) = 1
    /\ StageBody(stage)[2][1][1] = "$expr"
    /\ LET conj == unwrap(MapGet(StageBody(stage)[2][1][2][2], "$and"))[2]
       IN  /\ Len(conj) = Len(LocalSide(r).fields)
           /\ \A i \in 1..Len(conj) :
                /\ conj[i][2][1][1] = "$eq"
                /\ conj[i][2][1][2][2][2] =
                    BString("$$" \o LocalSide(r).fields[i])
                /\ MapGet(let, LocalSide(r).fields[i]) =
                    Some(BString("$" \o ColumnOf(BuiltModel,
                                        LocalSide(r).references[i])))

(* C27: in the $lookup of an included through relation the innermost
   pipeline has exactly one $match, holding the foreign-side key
   equalities under $expr.$and together with every key of the compiled
   nested where, a nested cursor predicate included; and the first stage
   of the join pipeline matches join-table rows on the local keys. *)
C27_ThroughMatch ==
    Succeeded =>
        \A e \in ThroughIncludes :
            /\ IncludeLookups(Stages, e[1]) # {}
            /\ \A i \in IncludeLookups(Stages, e[1]) :
                LET outer == LookupPipeline(Stages[i])
                    inner == LookupPipeline(outer[FindStage(outer, "$lookup")])
                    nested == IF is_object(e[2])
                              THEN NestedThroughPipeline(e[1], e[2]) ELSE <<>>
                IN  /\ Cardinality(PositionsOf(inner, "$match")) = 1
                    /\ MapGet(StageDoc(inner, "$match"), "$expr") =
                        Some(BDoc(<<<<"$and",
                                      BArray(ForeignEqualities(e[1]))>>>>))
                    /\ FindStage(nested, "$match") # 0 =>
                        SeqRange(StageDoc(nested, "$match"))
                            \subseteq SeqRange(StageDoc(inner, "$match"))
                    /\ Len(StageDoc(inner, "$match")) =
                        1 + (IF FindStage(nested, "$match") # 0
                             THEN Len(StageDoc(nested, "$match")) ELSE 0)
                    /\ MatchesLocalKeys(outer[1],
                        unwrap(MapGet(StageBody(Stages[i])[2], "let"))[2], e[1])

(* A through relation included with a nested where and cursor: the
   innermost $match holds the key equality and the joined predicates. *)
C27_Witness ==
    /\ Succeeded
    /\ \E e \in ThroughIncludes : \E i \in IncludeLookups(Stages, e[1]) :
        LET outer == LookupPipeline(Stages[i])
            inner == LookupPipeline(outer[FindStage(outer, "$lookup")])
        IN  /\ is_object(e[2])
            /\ is_some(MapGet(e[2][2], "cursor"))
            /\ is_some(MapGet(StageDoc(inner, "$match"), "$and"))
            /\ is_some(MapGet(StageDoc(inner, "$match"), "$expr"))

SingleStageKinds == {"$match", "$sort", "$skip", "$limit", "$project"}

AtMostOneOfEach(p) ==
    \A kind \in SingleStageKinds : Cardinality(PositionsOf(p, kind)) <= 1

(* C28: a stage sequence the planner returns has, at its top level, at most
   one stage of each of the kinds $match, $sort, $skip, $limit, $project;
   so has the sequence compiled for the nested query of an included
   relation, from which the relation builder takes the first such stage. *)
C28_SingleStages ==
    Succeeded =>
        /\ AtMostOneOfEach(Stages)
        /\ \A e \in DirectIncludes :
            AtMostOneOfEach(NestedDirectPipeline(e[1], e[2]))
        /\ \A e \in { x \in ThroughIncludes : is_object(x[2]) } :
            AtMostOneOfEach(NestedThroughPipeline(e[1], e[2]))

(* A returned pipeline with one stage of each of the five kinds. *)
C28_Witness ==
    /\ Succeeded
    /\ \A kind \in SingleStageKinds :
        Cardinality(PositionsOf(Stages, kind)) = 1

(* C30: an include entry whose value is false yields no $lookup for its
   relation; a $lookup is emitted only for an entry whose value is true or
   an object. *)
C30_IncludeFalse ==
    Succeeded =>
        \A e \in IncludeEntries :
            IncludeLookups(Stages, e[1]) # {} =>
                (e[2] = JBool(TRUE) \/ is_object(e[2]))
=============================================================================
